---- MODULE Spec2Model ----
(***************************************************************************)
(* A model of ncre, a backtracking regular-expression engine that follows  *)
(* the .NET dialect.  Strings are sequences of one-character strings.      *)
(* The expression tree, the State object and the engine loop of Regex are  *)
(* translated operation by operation; the node protocol (match, backtrack, *)
(* discard, invert) is a family of recursive operators over immutable      *)
(* expression records, tokens and State records.                           *)
(***************************************************************************)
EXTENDS Integers, Sequences, FiniteSets, TLC

VARIABLES
    regex,      \* the constructed Regex: [ast, groups, rightToLeft, direction]
    input,      \* the subject string of the running call
    op,         \* what runs: "match" or "matches", "protocol", "parse"
    pc,         \* position of the call: "search", "done", "hung", "threw";
                \* of a protocol client: "fresh", "live", "over"
    st,         \* the State object of the call
    found,      \* the Match records returned so far (matches: the list)
    hist,       \* what the last step of the engine loop did
    toks,       \* protocol client: the token it holds (<<>> when none)
    last,       \* protocol client: the last protocol call and its outcome
    scanner,    \* parser: the Scanner (its index; the pattern is in ptext)
    ptext,      \* parser: the pattern text
    parser,     \* parser: curGroupIndex, the group table, the parse outcome
    api         \* replace, split, result, escape: the arguments and the locals

vars == <<regex, input, op, pc, st, found, hist, toks, last, scanner, ptext, parser, api>>

-----------------------------------------------------------------------------
(* Bounds of the model. *)

\* longest enumerated subject string
MaxLen == 3
\* evaluation steps after which a root evaluation counts as not terminating
MaxSteps == 60
\* successful backtracks a protocol client asks for, one after the other
MaxChain == 3
\* pieces (group openings, closings, flag modifiers) of a pattern text
MaxPieces == 4

-----------------------------------------------------------------------------
(* Strings and the JavaScript string primitives the code relies on. *)

Min(a, b) == IF a <= b THEN a ELSE b

Max(a, b) == IF a >= b THEN a ELSE b

Clamp(n, len) == IF n < 0 THEN 0 ELSE IF n > len THEN len ELSE n

\* String.prototype.substring: both ends clamped to [0, length], swapped
\* when the first is the larger one.
Substring(s, a, b) ==
    LET lo == Clamp(Min(a, b), Len(s))
        hi == Clamp(Max(a, b), Len(s))
    IN SubSeq(s, lo + 1, hi)

LowerOf(c) ==
    CASE c = "A" -> "a"
      [] c = "B" -> "b"
      [] c = "C" -> "c"
      [] c = "T" -> "t"
      [] OTHER -> c

UpperOf(c) ==
    CASE c = "a" -> "A"
      [] c = "b" -> "B"
      [] c = "c" -> "C"
      [] c = "t" -> "T"
      [] OTHER -> c

ToLowerCase(s) == [i \in 1..Len(s) |-> LowerOf(s[i])]

ToUpperCase(s) == [i \in 1..Len(s) |-> UpperOf(s[i])]

-----------------------------------------------------------------------------
(* State (state.ts).  A capture is [value, index]; Undefined is what       *)
(* Array.prototype.pop returns on an empty array.                          *)

CaptureValue(value, index) == [value |-> value, index |-> index]

Undefined == [value |-> <<"undefined">>, index |-> -1]

\* new State(str, groups, startIndex, direction)
NewState(str, groups, startIndex, direction) ==
    [ str |-> str,
      currentIndex |-> startIndex,
      direction |-> direction,
      groups |-> [g \in groups |-> <<>>],
      stateStack |-> <<>>,
      previousMatchEndIndex |-> startIndex,
      steps |-> 0,
      thrown |-> FALSE ]

\* What a caller can observe of a State: everything but the step counter.
View(s) ==
    [ currentIndex |-> s.currentIndex,
      direction |-> s.direction,
      groups |-> s.groups,
      stateStack |-> s.stateStack,
      previousMatchEndIndex |-> s.previousMatchEndIndex ]

\* State.create with a window, as createState of ncre.ts calls it: the State
\* with the matching window [leftIndex, rightIndex].
NewBoundedState(str, groups, startIndex, leftIndex, rightIndex, direction) ==
    [ str |-> str,
      currentIndex |-> startIndex,
      direction |-> direction,
      groups |-> [g \in groups |-> <<>>],
      stateStack |-> <<>>,
      previousMatchEndIndex |-> startIndex,
      steps |-> 0,
      thrown |-> FALSE,
      leftIndex |-> leftIndex,
      rightIndex |-> rightIndex ]

IsBounded(s) == "leftIndex" \in DOMAIN s

Within(n, lo, hi) == IF n < lo THEN lo ELSE IF n > hi THEN hi ELSE n

\* peek, endOfString and outOfBounds of a State with a window: the edges of
\* the window are the edges of the string.
BoundedPeek(s, length) ==
    Substring(s.str,
              Within(s.currentIndex, s.leftIndex, s.rightIndex),
              Within(s.currentIndex + length * s.direction, s.leftIndex, s.rightIndex))

BoundedEndOfString(s) ==
    IF s.direction = 1
    THEN s.currentIndex >= s.rightIndex
    ELSE s.currentIndex <= s.leftIndex

BoundedOutOfBounds(s) ==
    IF s.direction = 1
    THEN s.currentIndex > s.rightIndex
    ELSE s.currentIndex < s.leftIndex

Advance(s, count) == [s EXCEPT !.currentIndex = @ + count * s.direction]

StateBacktrack(s, count) == [s EXCEPT !.currentIndex = @ - count * s.direction]

Peek(s, length) ==
    IF IsBounded(s) THEN BoundedPeek(s, length)
    ELSE Substring(s.str, s.currentIndex, s.currentIndex + length * s.direction)

EndOfString(s) ==
    IF IsBounded(s) THEN BoundedEndOfString(s)
    ELSE IF s.direction = 1
    THEN s.currentIndex >= Len(s.str)
    ELSE s.currentIndex <= 0

OutOfBounds(s) ==
    IF IsBounded(s) THEN BoundedOutOfBounds(s)
    ELSE IF s.direction = 1
    THEN s.currentIndex > Len(s.str)
    ELSE s.currentIndex < 0

\* a startAnchor that saves the cursor and the direction and goes on in the
\* direction of the caller
StartAnchorKeepsDirection(s, direction) ==
    [s EXCEPT !.stateStack = Append(@, [index |-> s.currentIndex, direction |-> s.direction])]

StartAnchor(s, direction) ==
    [s EXCEPT !.stateStack = Append(@, [index |-> s.currentIndex, direction |-> s.direction]),
              !.direction = direction]

\* an endAnchor that gives the direction back and leaves the cursor where
\* the anchor's expression moved it
EndAnchorKeepsCursor(s) ==
    LET top == s.stateStack[Len(s.stateStack)]
    IN [s EXCEPT !.direction = top.direction,
                 !.stateStack = SubSeq(@, 1, Len(@) - 1)]

EndAnchor(s) ==
    LET top == s.stateStack[Len(s.stateStack)]
    IN [s EXCEPT !.currentIndex = top.index,
                 !.direction = top.direction,
                 !.stateStack = SubSeq(@, 1, Len(@) - 1)]

\* pushCapture that stores startIndex where the code stores the Math.min
PushCaptureToNoMin(s, group, startIndex, endIndex) ==
    [s EXCEPT !.groups[group] =
        Append(@, CaptureValue(Substring(s.str, startIndex, endIndex), startIndex))]

PushCaptureTo(s, group, startIndex, endIndex) ==
    [s EXCEPT !.groups[group] =
        Append(@, CaptureValue(Substring(s.str, startIndex, endIndex), Min(startIndex, endIndex)))]

PushCapture(s, group, startIndex) == PushCaptureTo(s, group, startIndex, s.currentIndex)

RepushCapture(s, group, capture) == [s EXCEPT !.groups[group] = Append(@, capture)]

HasCapture(s, group) == Len(s.groups[group]) > 0

\* peekCapture: the value of the top capture; callers test HasCapture first
\* where the code tests for undefined.
PeekCapture(s, group) == s.groups[group][Len(s.groups[group])].value

\* popCapture returns the popped capture (Undefined on an empty stack) and
\* leaves the stack one shorter (unchanged when it was empty).
PoppedCapture(s, group) ==
    IF Len(s.groups[group]) = 0 THEN Undefined ELSE s.groups[group][Len(s.groups[group])]

PopCapture(s, group) ==
    [s EXCEPT !.groups[group] = IF Len(@) = 0 THEN @ ELSE SubSeq(@, 1, Len(@) - 1)]

\* a finishMatch that also puts the cursor back where the previous match ended
FinishMatchRewinds(s) ==
    [s EXCEPT !.currentIndex = s.previousMatchEndIndex,
              !.groups = [g \in DOMAIN s.groups |-> <<>>]]

\* a finishMatch that clears the stacks and keeps previousMatchEndIndex
FinishMatchKeepsPreviousEnd(s) == [s EXCEPT !.groups = [g \in DOMAIN s.groups |-> <<>>]]

\* StateAccessor.finishMatch
FinishMatch(s) ==
    [s EXCEPT !.previousMatchEndIndex = s.currentIndex,
              !.groups = [g \in DOMAIN s.groups |-> <<>>]]

-----------------------------------------------------------------------------
(* Expression records (expression.ts), as the parser builds them.  A       *)
(* Character's filter is the set of characters it accepts, or rejects.     *)

WordChars == {"a", "b", "c", "A", "B", "_", "0", "1"}

Literal(c) == [set |-> {c}, negate |-> FALSE]

AnyChar == [set |-> {}, negate |-> TRUE]

DotClass == [set |-> {"\n"}, negate |-> TRUE]

WordClass == [set |-> WordChars, negate |-> FALSE]

Character(filter, ignoreCase) ==
    [kind |-> "Character", filter |-> filter, ignoreCase |-> ignoreCase]

Sequence(atoms) == [kind |-> "Sequence", atoms |-> atoms]

Alternation(left, right) == [kind |-> "Alternation", left |-> left, right |-> right]

\* max = Infinity is the flag unbounded; max is then not read.
Repetition(atom, min, max, unbounded, lazy) ==
    [kind |-> "Repetition", atom |-> atom, min |-> min, max |-> max,
     unbounded |-> unbounded, lazy |-> lazy]

Group(atom, group) == [kind |-> "Group", atom |-> atom, group |-> group]

\* pushGroup = "" stands for an undefined pushGroup.
BalancingGroup(atom, pushGroup, popGroup) ==
    [kind |-> "BalancingGroup", atom |-> atom, pushGroup |-> pushGroup, popGroup |-> popGroup]

Reference(ignoreCase, group) ==
    [kind |-> "Reference", ignoreCase |-> ignoreCase, group |-> group]

NoExpr == [kind |-> "none"]

\* left/right = NoExpr stands for undefined; condition names the closure.
Anchor(left, right, condition, negate) ==
    [kind |-> "Anchor", left |-> left, right |-> right, condition |-> condition, negate |-> negate]

Atomic(expression) == [kind |-> "Atomic", expression |-> expression]

\* The condition is a CaptureGroup (condGroup, condAnchor = NoExpr) or an
\* Anchor (condAnchor, condGroup = "").
Conditional(left, right, condGroup, condAnchor, isImplicitLookahead) ==
    [kind |-> "Conditional", left |-> left, right |-> right, condGroup |-> condGroup,
     condAnchor |-> condAnchor, isImplicitLookahead |-> isImplicitLookahead]

\* A Proxy before setExpression: no expression, not inverted.
Proxy == [kind |-> "Proxy", expression |-> NoExpr, inverted |-> FALSE]

Reverse(q) == [i \in 1..Len(q) |-> q[Len(q) + 1 - i]]

RECURSIVE InvertExpr(_)

\* an invertAnchor that leaves the Anchor as it is
InvertAnchorKeepsSides(a) == a

\* Anchor.invertAnchor: swap the sides, then invert each.
InvertAnchor(a) ==
    [a EXCEPT !.left = IF a.right.kind = "none" THEN NoExpr ELSE InvertExpr(a.right),
              !.right = IF a.left.kind = "none" THEN NoExpr ELSE InvertExpr(a.left)]

\* an invert that leaves every sequence in its order
InvertKeepsOrder(e) == e

\* Expression.invert of every node kind.
InvertExpr(e) ==
    CASE e.kind = "Sequence" ->
            [e EXCEPT !.atoms = [i \in 1..Len(e.atoms) |-> InvertExpr(Reverse(e.atoms)[i])]]
      [] e.kind = "Alternation" ->
            [e EXCEPT !.left = InvertExpr(e.left), !.right = InvertExpr(e.right)]
      [] e.kind = "Repetition" -> [e EXCEPT !.atom = InvertExpr(e.atom)]
      [] e.kind = "Group" -> [e EXCEPT !.atom = InvertExpr(e.atom)]
      [] e.kind = "BalancingGroup" -> [e EXCEPT !.atom = InvertExpr(e.atom)]
      [] e.kind = "Atomic" -> [e EXCEPT !.expression = InvertExpr(e.expression)]
      [] e.kind = "Conditional" ->
            [e EXCEPT !.left = InvertExpr(e.left),
                      !.right = InvertExpr(e.right),
                      !.condAnchor = IF e.isImplicitLookahead THEN InvertAnchor(@) ELSE @]
      [] e.kind = "Proxy" -> [e EXCEPT !.inverted = ~@]
      [] OTHER -> e

\* Proxy.setExpression
SetExpression(p, expression) ==
    [p EXCEPT !.expression = IF p.inverted THEN InvertExpr(expression) ELSE expression]

-----------------------------------------------------------------------------
(* The match/backtrack/discard protocol.  A call returns [ok, tok, st]:    *)
(* ok = FALSE is the code's undefined.  The State is threaded through      *)
(* every call, as the code mutates one State object.                       *)

NoToken == [kind |-> "none"]

Ok(tok, s) == [ok |-> TRUE, tok |-> tok, st |-> s]

Fail(s) == [ok |-> FALSE, tok |-> NoToken, st |-> s]

\* A loop of the code takes one more turn.
Tick(s) == [s EXCEPT !.steps = @ + 1]

\* The evaluation has thrown, or has used up its steps.
Halted(s) == s.thrown \/ s.steps >= MaxSteps

\* A TypeError: a field of undefined is read.
Throw(s) == [s EXCEPT !.thrown = TRUE]

Front(q) == SubSeq(q, 1, Len(q) - 1)

RECURSIVE SortAsc(_)

\* Array.prototype.sort((a, b) => a - b)
SortAsc(q) ==
    IF Len(q) <= 1 THEN q
    ELSE LET m == CHOOSE i \in 1..Len(q) : \A j \in 1..Len(q) : q[i] <= q[j]
         IN <<q[m]>> \o SortAsc(SubSeq(q, 1, m - 1) \o SubSeq(q, m + 1, Len(q)))

TestPredicate(filter, c) == (c \in filter.set) # filter.negate

\* Character.testFilter; character is a string of length 1.
TestFilter(e, character) ==
    IF e.ignoreCase
    THEN TestPredicate(e.filter, ToLowerCase(character)[1])
         \/ TestPredicate(e.filter, ToUpperCase(character)[1])
    ELSE TestPredicate(e.filter, character[1])

\* The closures passed to new Anchor(...) in parser.ts.
AnchorCondition(e, s, l, r) ==
    CASE e.condition = "notLeft" -> ~l
      [] e.condition = "notRight" -> ~r
      [] e.condition = "matchEnd" -> s.currentIndex = s.previousMatchEndIndex
      [] e.condition = "wordBoundary" -> l # r
      [] e.condition = "nonWordBoundary" -> l = r
      [] e.condition = "lookahead" -> r # e.negate
      [] e.condition = "lookbehind" -> l # e.negate
      [] e.condition = "implicit" -> l \/ r

LtMax(n, e) == e.unbounded \/ n < e.max

\* Every call of a node's match, backtrack or discard goes through Run, the
\* dynamic dispatch on the node's class; Discard returns the State alone.
RECURSIVE Run(_)

Match(e, s) == Run([fn |-> "match", e |-> e, s |-> s, t |-> NoToken])

Backtrack(e, s, t) == Run([fn |-> "backtrack", e |-> e, s |-> s, t |-> t])

Discard(e, s, t) == Run([fn |-> "discard", e |-> e, s |-> s, t |-> t]).st

RECURSIVE SequenceMatchInternal(_, _, _, _)
RECURSIVE SequenceBacktrackInternal(_, _, _, _)
RECURSIVE SequenceDiscardFrom(_, _, _, _)
RECURSIVE RepetitionMatchInternal(_, _, _)
RECURSIVE RepetitionBacktrackInternal(_, _, _)
RECURSIVE RepetitionDiscardFrom(_, _, _, _)

(* Sequence *)

\* Sequence.backtrackInternal: [found, index, tokens, st]; atoms are numbered
\* from 1, so startAt = 0 is the code's -1.
SequenceBacktrackInternal(e, s, tokens, startAt) ==
    IF startAt < 1
    THEN [found |-> FALSE, index |-> 0, tokens |-> tokens, st |-> s]
    ELSE LET r == Backtrack(e.atoms[startAt], s, tokens[startAt])
         IN IF r.ok
            THEN [found |-> TRUE, index |-> startAt,
                  tokens |-> [tokens EXCEPT ![startAt] = r.tok], st |-> r.st]
            ELSE SequenceBacktrackInternal(e, r.st, tokens, startAt - 1)

\* Sequence.matchInternal
SequenceMatchInternal(e, s, tokens, startAt) ==
    IF Halted(s) THEN Fail(s)
    ELSE IF startAt > Len(e.atoms) THEN Ok(tokens, s)
    ELSE LET r == Match(e.atoms[startAt], Tick(s))
         IN IF r.ok
            THEN SequenceMatchInternal(e, r.st, [tokens EXCEPT ![startAt] = r.tok], startAt + 1)
            ELSE LET b == SequenceBacktrackInternal(e, r.st, tokens, startAt - 1)
                 IN IF b.found
                    THEN SequenceMatchInternal(e, b.st, b.tokens, b.index + 1)
                    ELSE Fail(b.st)

SequenceMatch(e, s) ==
    SequenceMatchInternal(e, s, [i \in 1..Len(e.atoms) |-> NoToken], 1)

SequenceBacktrack(e, s, tokens) ==
    LET b == SequenceBacktrackInternal(e, s, tokens, Len(tokens))
    IN IF b.found
       THEN SequenceMatchInternal(e, b.st, b.tokens, b.index + 1)
       ELSE Fail(b.st)

SequenceDiscardFrom(e, s, tokens, i) ==
    IF i < 1 THEN s
    ELSE SequenceDiscardFrom(e, Discard(e.atoms[i], s, tokens[i]), tokens, i - 1)

SequenceDiscard(e, s, tokens) == SequenceDiscardFrom(e, s, tokens, Len(e.atoms))

(* Repetition *)

\* Repetition.backtrackInternal
RepetitionBacktrackInternal(e, s, tokens) ==
    IF Halted(s) THEN Fail(s)
    ELSE IF Len(tokens) > 0
    THEN LET r == Backtrack(e.atom, Tick(s), tokens[Len(tokens)])
             popped == Front(tokens)
         IN IF r.ok
            THEN RepetitionMatchInternal(e, r.st, Append(popped, r.tok))
            ELSE IF ~e.lazy /\ Len(popped) >= e.min
            THEN Ok(popped, r.st)
            ELSE RepetitionBacktrackInternal(e, r.st, popped)
    ELSE Fail(s)

\* The lazy half of Repetition.matchInternal
RepetitionMatchLazy(e, s, tokens) ==
    IF Len(tokens) < e.min
    THEN LET r == Match(e.atom, Tick(s))
         IN IF r.ok
            THEN RepetitionMatchInternal(e, r.st, Append(tokens, r.tok))
            ELSE RepetitionBacktrackInternal(e, r.st, tokens)
    ELSE Ok(tokens, s)

\* a greedy half that is content with min iterations
RepetitionMatchGreedyStopsAtMin(e, s, tokens) ==
    IF Len(tokens) < e.min
    THEN LET r == Match(e.atom, Tick(s))
         IN IF r.ok
            THEN RepetitionMatchInternal(e, r.st, Append(tokens, r.tok))
            ELSE RepetitionBacktrackInternal(e, r.st, tokens)
    ELSE Ok(tokens, s)

\* The greedy half of Repetition.matchInternal, with the zero-progress test
RepetitionMatchGreedy(e, s, tokens) ==
    IF LtMax(Len(tokens), e)
    THEN LET previousIndex == s.currentIndex
             r == Match(e.atom, Tick(s))
             pushed == Append(tokens, r.tok)
         IN IF r.ok
            THEN IF r.st.currentIndex = previousIndex /\ Len(pushed) >= e.min
                 THEN Ok(pushed, r.st)
                 ELSE RepetitionMatchInternal(e, r.st, pushed)
            ELSE IF Len(tokens) >= e.min
            THEN Ok(tokens, r.st)
            ELSE RepetitionBacktrackInternal(e, r.st, tokens)
    ELSE Ok(tokens, s)

RepetitionMatchInternal(e, s, tokens) ==
    IF Halted(s) THEN Fail(s)
    ELSE IF e.lazy THEN RepetitionMatchLazy(e, s, tokens)
    ELSE RepetitionMatchGreedy(e, s, tokens)

RepetitionMatch(e, s) == RepetitionMatchInternal(e, s, <<>>)

\* a backtrack whose lazy half adds an iteration without looking at max
RepetitionBacktrackPastMax(e, s, tokens) ==
    IF Halted(s) THEN Fail(s)
    ELSE IF e.lazy
    THEN LET r == Match(e.atom, Tick(s))
         IN IF r.ok
            THEN Ok(Append(tokens, r.tok), r.st)
            ELSE RepetitionBacktrackInternal(e, r.st, tokens)
    ELSE RepetitionBacktrackInternal(e, s, tokens)

RepetitionBacktrack(e, s, tokens) ==
    IF Halted(s) THEN Fail(s)
    ELSE IF e.lazy /\ LtMax(Len(tokens), e)
    THEN LET r == Match(e.atom, Tick(s))
         IN IF r.ok
            THEN Ok(Append(tokens, r.tok), r.st)
            ELSE RepetitionBacktrackInternal(e, r.st, tokens)
    ELSE RepetitionBacktrackInternal(e, s, tokens)

RepetitionDiscardFrom(e, s, tokens, i) ==
    IF i < 1 THEN s
    ELSE RepetitionDiscardFrom(e, Discard(e.atom, s, tokens[i]), tokens, i - 1)

RepetitionDiscard(e, s, tokens) == RepetitionDiscardFrom(e, s, tokens, Len(tokens))

(* Alternation *)

AlternationMatch(e, s) ==
    LET l == Match(e.left, s)
        r == Match(e.right, l.st)
    IN IF l.ok THEN Ok([side |-> "left", token |-> l.tok], l.st)
       ELSE IF r.ok THEN Ok([side |-> "right", token |-> r.tok], r.st)
       ELSE Fail(r.st)

AlternationBacktrack(e, s, t) ==
    IF t.side = "left"
    THEN LET l == Backtrack(e.left, s, t.token)
             r == Match(e.right, l.st)
         IN IF l.ok THEN Ok([side |-> "left", token |-> l.tok], l.st)
            ELSE IF r.ok THEN Ok([side |-> "right", token |-> r.tok], r.st)
            ELSE Fail(r.st)
    ELSE LET r == Backtrack(e.right, s, t.token)
         IN IF r.ok THEN Ok([side |-> "right", token |-> r.tok], r.st)
            ELSE Fail(r.st)

AlternationDiscard(e, s, t) ==
    IF t.side = "left" THEN Discard(e.left, s, t.token) ELSE Discard(e.right, s, t.token)

(* Character *)

CharacterMatch(e, s) ==
    IF ~EndOfString(s) /\ TestFilter(e, Peek(s, 1))
    THEN Ok([kind |-> "Character"], Advance(s, 1))
    ELSE Fail(s)

CharacterBacktrack(e, s, t) == Fail(StateBacktrack(s, 1))

CharacterDiscard(e, s, t) == StateBacktrack(s, 1)

(* Group *)

GroupMatch(e, s) ==
    LET start == s.currentIndex
        r == Match(e.atom, s)
    IN IF r.ok
       THEN Ok([start |-> start, token |-> r.tok], PushCapture(r.st, e.group, start))
       ELSE Fail(r.st)

\* a Group.backtrack that leaves the capture of the abandoned attempt on
\* the stack
GroupBacktrackKeepsCapture(e, s, t) ==
    LET r == Backtrack(e.atom, s, t.token)
    IN IF r.ok
       THEN Ok([start |-> t.start, token |-> r.tok], PushCapture(r.st, e.group, t.start))
       ELSE Fail(r.st)

GroupBacktrack(e, s, t) ==
    LET r == Backtrack(e.atom, PopCapture(s, e.group), t.token)
    IN IF r.ok
       THEN Ok([start |-> t.start, token |-> r.tok], PushCapture(r.st, e.group, t.start))
       ELSE Fail(r.st)

GroupDiscard(e, s, t) == Discard(e.atom, PopCapture(s, e.group), t.token)

(* BalancingGroup *)

\* a balanceCapture that reads the top capture of popGroup and leaves it on
\* the stack
BalanceCaptureKeeps(e, s, start) == [capture |-> PoppedCapture(s, e.popGroup), st |-> s]

\* BalancingGroup.balanceCapture: [capture, st].  Reading capture.index of
\* an undefined capture throws.
BalanceCapture(e, s, start) ==
    LET capture == PoppedCapture(s, e.popGroup)
        s1 == PopCapture(s, e.popGroup)
        indices == SortAsc(<<capture.index, capture.index + Len(capture.value),
                             start, s1.currentIndex>>)
    IN IF e.pushGroup # ""
       THEN IF capture = Undefined
            THEN [capture |-> capture, st |-> Throw(s1)]
            ELSE [capture |-> capture,
                  st |-> PushCaptureTo(s1, e.pushGroup, indices[2], indices[3])]
       ELSE [capture |-> capture, st |-> s1]

\* a backtrackBalanceCapture that removes the pushed capture and does not
\* restore the popped one
BacktrackBalanceCaptureDropsPopped(e, s, capture) ==
    IF e.pushGroup # "" THEN PopCapture(s, e.pushGroup) ELSE s

\* BalancingGroup.backtrackBalanceCapture
BacktrackBalanceCapture(e, s, capture) ==
    RepushCapture(IF e.pushGroup # "" THEN PopCapture(s, e.pushGroup) ELSE s,
                  e.popGroup, capture)

BalancingGroupMatch(e, s) ==
    IF ~HasCapture(s, e.popGroup) THEN Fail(s)
    ELSE LET start == s.currentIndex
             r == Match(e.atom, s)
             b == BalanceCapture(e, r.st, start)
         IN IF r.ok
            THEN Ok([start |-> start, capture |-> b.capture, token |-> r.tok], b.st)
            ELSE Fail(r.st)

BalancingGroupBacktrack(e, s, t) ==
    LET r == Backtrack(e.atom, BacktrackBalanceCapture(e, s, t.capture), t.token)
        b == BalanceCapture(e, r.st, t.start)
    IN IF r.ok
       THEN Ok([start |-> t.start, capture |-> b.capture, token |-> r.tok], b.st)
       ELSE Fail(r.st)

BalancingGroupDiscard(e, s, t) ==
    Discard(e.atom, BacktrackBalanceCapture(e, s, t.capture), t.token)

(* Reference *)

\* Reference.match; peekCapture reads .value of the top entry, which throws
\* when that entry is undefined.
ReferenceMatch(e, s) ==
    IF ~HasCapture(s, e.group) THEN Fail(s)
    ELSE IF PoppedCapture(s, e.group) = Undefined THEN Fail(Throw(s))
    ELSE LET capture == PeekCapture(s, e.group)
             success == IF e.ignoreCase
                        THEN ToLowerCase(Peek(s, Len(capture))) = ToLowerCase(capture)
                        ELSE Peek(s, Len(capture)) = capture
         IN IF success
            THEN Ok([length |-> Len(capture)], Advance(s, Len(capture)))
            ELSE Fail(s)

ReferenceBacktrack(e, s, t) == Fail(StateBacktrack(s, t.length))

ReferenceDiscard(e, s, t) == StateBacktrack(s, t.length)

(* Anchor *)

AnchorMatch(e, s) ==
    LET hasLeft == e.left.kind # "none"
        hasRight == e.right.kind # "none"
        l == IF hasLeft THEN Match(e.left, StartAnchor(s, -1)) ELSE Fail(s)
        s1 == IF hasLeft THEN EndAnchor(l.st) ELSE s
        r == IF hasRight THEN Match(e.right, StartAnchor(s1, 1)) ELSE Fail(s1)
        s2 == IF hasRight THEN EndAnchor(r.st) ELSE s1
    IN IF AnchorCondition(e, s2, l.ok, r.ok)
       THEN Ok([hasLeft |-> l.ok, left |-> l.tok, hasRight |-> r.ok, right |-> r.tok], s2)
       ELSE Fail(s2)

AnchorDiscard(e, s, t) ==
    LET s1 == IF t.hasLeft
              THEN EndAnchor(Discard(e.left, StartAnchor(s, -1), t.left))
              ELSE s
    IN IF t.hasRight
       THEN EndAnchor(Discard(e.right, StartAnchor(s1, 1), t.right))
       ELSE s1

AnchorBacktrack(e, s, t) == Fail(AnchorDiscard(e, s, t))

(* Atomic *)

AtomicMatch(e, s) == Match(e.expression, s)

AtomicDiscard(e, s, t) == Discard(e.expression, s, t)

\* an Atomic.backtrack that asks the inner expression for its next candidate
AtomicBacktrackRetries(e, s, t) == Backtrack(e.expression, s, t)

AtomicBacktrack(e, s, t) == Fail(AtomicDiscard(e, s, t))

(* Conditional *)

\* Conditional.finishMatch; hasMatch/hasAnchor say whether the token is defined.
ConditionalFinishMatch(e, s, side, hasMatch, matchToken, hasAnchor, anchorToken) ==
    IF hasMatch
    THEN Ok([side |-> side, matchToken |-> matchToken,
             hasAnchor |-> hasAnchor, anchorToken |-> anchorToken], s)
    ELSE Fail(IF hasAnchor THEN AnchorDiscard(e.condAnchor, s, anchorToken) ELSE s)

\* a Conditional.match that turns to the other branch when the selected
\* one does not match
ConditionalMatchTriesOther(e, s) ==
    LET isGroup == e.condAnchor.kind = "none"
        a == IF isGroup THEN Fail(s) ELSE Match(e.condAnchor, s)
        condition == IF isGroup THEN HasCapture(s, e.condGroup) ELSE a.ok
        first == IF condition THEN Match(e.left, a.st) ELSE Match(e.right, a.st)
        other == IF condition THEN Match(e.right, first.st) ELSE Match(e.left, first.st)
        side == IF condition = first.ok THEN "left" ELSE "right"
        m == IF first.ok THEN first ELSE other
    IN ConditionalFinishMatch(e, m.st, side, m.ok, m.tok, a.ok, a.tok)

ConditionalMatch(e, s) ==
    LET isGroup == e.condAnchor.kind = "none"
        a == IF isGroup THEN Fail(s) ELSE Match(e.condAnchor, s)
        condition == IF isGroup THEN HasCapture(s, e.condGroup) ELSE a.ok
        side == IF condition THEN "left" ELSE "right"
        m == IF condition THEN Match(e.left, a.st) ELSE Match(e.right, a.st)
    IN ConditionalFinishMatch(e, m.st, side, m.ok, m.tok, a.ok, a.tok)

ConditionalBacktrack(e, s, t) ==
    LET m == IF t.side = "left"
             THEN Backtrack(e.left, s, t.matchToken)
             ELSE Backtrack(e.right, s, t.matchToken)
    IN ConditionalFinishMatch(e, m.st, t.side, m.ok, m.tok, t.hasAnchor, t.anchorToken)

ConditionalDiscard(e, s, t) ==
    LET s1 == IF t.side = "left"
              THEN Discard(e.left, s, t.matchToken)
              ELSE Discard(e.right, s, t.matchToken)
    IN ConditionalFinishMatch(e, s1, t.side, FALSE, NoToken, t.hasAnchor, t.anchorToken).st

(* Proxy forwards to its expression. *)

ProxyMatch(e, s) == Match(e.expression, s)

ProxyBacktrack(e, s, t) == Backtrack(e.expression, s, t)

ProxyDiscard(e, s, t) == Discard(e.expression, s, t)

(* Expression.match / backtrack / discard: dispatch on the node's class. *)

ExpressionMatch(e, s) ==
    CASE e.kind = "Sequence" -> SequenceMatch(e, s)
      [] e.kind = "Repetition" -> RepetitionMatch(e, s)
      [] e.kind = "Alternation" -> AlternationMatch(e, s)
      [] e.kind = "Character" -> CharacterMatch(e, s)
      [] e.kind = "Group" -> GroupMatch(e, s)
      [] e.kind = "BalancingGroup" -> BalancingGroupMatch(e, s)
      [] e.kind = "Reference" -> ReferenceMatch(e, s)
      [] e.kind = "Anchor" -> AnchorMatch(e, s)
      [] e.kind = "Atomic" -> AtomicMatch(e, s)
      [] e.kind = "Conditional" -> ConditionalMatch(e, s)
      [] e.kind = "Proxy" -> ProxyMatch(e, s)

ExpressionBacktrack(e, s, t) ==
    CASE e.kind = "Sequence" -> SequenceBacktrack(e, s, t)
      [] e.kind = "Repetition" -> RepetitionBacktrack(e, s, t)
      [] e.kind = "Alternation" -> AlternationBacktrack(e, s, t)
      [] e.kind = "Character" -> CharacterBacktrack(e, s, t)
      [] e.kind = "Group" -> GroupBacktrack(e, s, t)
      [] e.kind = "BalancingGroup" -> BalancingGroupBacktrack(e, s, t)
      [] e.kind = "Reference" -> ReferenceBacktrack(e, s, t)
      [] e.kind = "Anchor" -> AnchorBacktrack(e, s, t)
      [] e.kind = "Atomic" -> AtomicBacktrack(e, s, t)
      [] e.kind = "Conditional" -> ConditionalBacktrack(e, s, t)
      [] e.kind = "Proxy" -> ProxyBacktrack(e, s, t)

ExpressionDiscard(e, s, t) ==
    CASE e.kind = "Sequence" -> SequenceDiscard(e, s, t)
      [] e.kind = "Repetition" -> RepetitionDiscard(e, s, t)
      [] e.kind = "Alternation" -> AlternationDiscard(e, s, t)
      [] e.kind = "Character" -> CharacterDiscard(e, s, t)
      [] e.kind = "Group" -> GroupDiscard(e, s, t)
      [] e.kind = "BalancingGroup" -> BalancingGroupDiscard(e, s, t)
      [] e.kind = "Reference" -> ReferenceDiscard(e, s, t)
      [] e.kind = "Anchor" -> AnchorDiscard(e, s, t)
      [] e.kind = "Atomic" -> AtomicDiscard(e, s, t)
      [] e.kind = "Conditional" -> ConditionalDiscard(e, s, t)
      [] e.kind = "Proxy" -> ProxyDiscard(e, s, t)

Run(call) ==
    CASE call.fn = "match" -> ExpressionMatch(call.e, call.s)
      [] call.fn = "backtrack" -> ExpressionBacktrack(call.e, call.s, call.t)
      [] call.fn = "discard" -> Fail(ExpressionDiscard(call.e, call.s, call.t))

-----------------------------------------------------------------------------
(* Expression trees of concrete patterns, written as Parser.parse returns  *)
(* them: parseRegex yields a Sequence (or an Alternation of Sequences), a  *)
(* lookbehind body is inverted when it is parsed.                          *)

Lit(c) == Character(Literal(c), FALSE)

Star(x) == Repetition(x, 0, 0, TRUE, FALSE)

Plus(x) == Repetition(x, 1, 0, TRUE, FALSE)

Opt(x) == Repetition(x, 0, 1, FALSE, FALSE)

LazyStar(x) == Repetition(x, 0, 0, TRUE, TRUE)

LazyPlus(x) == Repetition(x, 1, 0, TRUE, TRUE)

Seq1(x) == Sequence(<<x>>)

Lookahead(x, negate) == Anchor(NoExpr, x, "lookahead", negate)

Lookbehind(x, negate) == Anchor(InvertExpr(x), NoExpr, "lookbehind", negate)

\* anchor.stringStart, anchor.stringEnd, anchor.matchEnd, anchor.wordBoundary
StringStart == Anchor(Character(AnyChar, FALSE), NoExpr, "notLeft", FALSE)

StringEnd == Anchor(NoExpr, Character(AnyChar, FALSE), "notRight", FALSE)

MatchEnd == Anchor(NoExpr, NoExpr, "matchEnd", FALSE)

WordBoundary ==
    Anchor(Character(WordClass, FALSE), Character(WordClass, FALSE), "wordBoundary", FALSE)

\* \1 is parsed to a Proxy that the post-parse pass resolves to a Reference.
BackReference(group) == SetExpression(Proxy, Reference(FALSE, group))

\* A parse result: the expression and the group table, whose keys keep the
\* order in which the parser first met them.
Pattern(text, ast, names) ==
    [text |-> text, ast |-> ast, names |-> names,
     groups |-> {names[i] : i \in 1..Len(names)}]

Patterns ==
    << Pattern("a*", Seq1(Star(Lit("a"))), <<>>),
       Pattern("(a*)*", Seq1(Star(Group(Seq1(Star(Lit("a"))), "1"))), <<"1">>),
       Pattern("(a*)*b",
               Sequence(<<Star(Group(Seq1(Star(Lit("a"))), "1")), Lit("b")>>), <<"1">>),
       Pattern("(a*)+?b",
               Sequence(<<LazyPlus(Group(Seq1(Star(Lit("a"))), "1")), Lit("b")>>), <<"1">>),
       Pattern("(?:)*?b", Sequence(<<LazyStar(Sequence(<<>>)), Lit("b")>>), <<>>),
       Pattern("a*?b*?", Sequence(<<LazyStar(Lit("a")), LazyStar(Lit("b"))>>), <<>>),
       Pattern("a+?b+?", Sequence(<<LazyPlus(Lit("a")), LazyPlus(Lit("b"))>>), <<>>),
       Pattern("[ab]", Seq1(Character([set |-> {"a", "b"}, negate |-> FALSE], FALSE)), <<>>),
       Pattern("(a|ab)(b?)",
               Sequence(<<Group(Alternation(Seq1(Lit("a")), Sequence(<<Lit("a"), Lit("b")>>)), "1"),
                          Group(Seq1(Opt(Lit("b"))), "2")>>), <<"1", "2">>),
       Pattern("(a(b)*)*(b)",
               Sequence(<<Star(Group(Sequence(<<Lit("a"), Star(Group(Seq1(Lit("b")), "2"))>>), "1")),
                          Group(Seq1(Lit("b")), "3")>>), <<"1", "2", "3">>),
       Pattern("(?!(a))", Seq1(Lookahead(Seq1(Group(Seq1(Lit("a")), "1")), TRUE)), <<"1">>),
       Pattern("(?!(a)b)(?(1)a|.)",
               Sequence(<<Lookahead(Sequence(<<Group(Seq1(Lit("a")), "1"), Lit("b")>>), TRUE),
                          Conditional(Seq1(Lit("a")), Seq1(Character(DotClass, FALSE)),
                                      "1", NoExpr, FALSE)>>), <<"1">>),
       Pattern("(?=(a))a*",
               Sequence(<<Lookahead(Seq1(Group(Seq1(Lit("a")), "1")), FALSE), Star(Lit("a"))>>),
               <<"1">>),
       Pattern("(?<=(ab*))b",
               Sequence(<<Lookbehind(Seq1(Group(Sequence(<<Lit("a"), Star(Lit("b"))>>), "1")), FALSE),
                          Lit("b")>>), <<"1">>),
       Pattern("(?<A>a)+(?<-A>b)+",
               Sequence(<<Plus(Group(Seq1(Lit("a")), "A")),
                          Plus(BalancingGroup(Seq1(Lit("b")), "", "A"))>>), <<"A">>),
       Pattern("(?<A>a)+(?<B-A>b)+",
               Sequence(<<Plus(Group(Seq1(Lit("a")), "A")),
                          Plus(BalancingGroup(Seq1(Lit("b")), "B", "A"))>>), <<"A", "B">>),
       Pattern("(?<A>a)(?<-A>(?<-A>b))a|b",
               Alternation(
                   Sequence(<<Group(Seq1(Lit("a")), "A"),
                              BalancingGroup(Seq1(BalancingGroup(Seq1(Lit("b")), "", "A")), "", "A"),
                              Lit("a")>>),
                   Seq1(Lit("b"))), <<"A">>),
       Pattern("(a)\\1", Sequence(<<Group(Seq1(Lit("a")), "1"), BackReference("1")>>), <<"1">>),
       Pattern("\\1?(a)", Sequence(<<Opt(BackReference("1")), Group(Seq1(Lit("a")), "1")>>), <<"1">>),
       Pattern("(?>ab?)b",
               Sequence(<<Atomic(Sequence(<<Lit("a"), Opt(Lit("b"))>>)), Lit("b")>>), <<>>),
       Pattern("\\b(?<a>a)?(?(a)a*|\\w+)",
               Sequence(<<WordBoundary, Opt(Group(Seq1(Lit("a")), "a")),
                          Conditional(Seq1(Star(Lit("a"))), Seq1(Plus(Character(WordClass, FALSE))),
                                      "a", NoExpr, FALSE)>>), <<"a">>),
       Pattern("(?(a)a|b)",
               Seq1(Conditional(Seq1(Lit("a")), Seq1(Lit("b")), "",
                                Anchor(NoExpr, Seq1(Lit("a")), "implicit", FALSE), TRUE)), <<>>),
       Pattern("^a|b\\z",
               Alternation(Sequence(<<StringStart, Lit("a")>>), Sequence(<<Lit("b"), StringEnd>>)),
               <<>>),
       Pattern("\\Ga", Sequence(<<MatchEnd, Lit("a")>>), <<>>),
       Pattern("(?i)A(B)", Sequence(<<Character(Literal("A"), TRUE),
                                      Group(Seq1(Character(Literal("B"), TRUE)), "1")>>), <<"1">>),
       Pattern("(?<A>a)(?<B-A>(?<-A>b))",
               Sequence(<<Group(Seq1(Lit("a")), "A"),
                          BalancingGroup(Seq1(BalancingGroup(Seq1(Lit("b")), "", "A")), "B", "A")>>),
               <<"A", "B">>),
       Pattern("(?!(a))b|a",
               Alternation(
                   Sequence(<<Lookahead(Seq1(Group(Seq1(Lit("a")), "1")), TRUE), Lit("b")>>),
                   Seq1(Lit("a"))), <<"1">>) >>

PatternIds == 1..Len(Patterns)

-----------------------------------------------------------------------------
(* Regex (ncre.ts) *)

\* new Regex(regex, {rightToLeft}), from the parse result of the pattern
NewRegex(p, rightToLeft) ==
    [ text |-> p.text,
      ast |-> IF rightToLeft THEN InvertExpr(p.ast) ELSE p.ast,
      groups |-> p.groups,
      names |-> p.names,
      rightToLeft |-> rightToLeft,
      direction |-> IF rightToLeft THEN -1 ELSE 1 ]

\* a createState that hands out the State of the call already in flight
CreateStateShared(r, str, hasStart, start) ==
    IF "other" \in DOMAIN api /\ api.other.pc # "called"
    THEN api.other.st
    ELSE NewState(str, r.groups, IF hasStart THEN start ELSE 0, r.direction)

\* Regex.createState without a length: the window is the whole input.
CreateState(r, str, hasStart, start) ==
    LET leftIndex == 0
        rightIndex == Len(str)
        startIndex == IF hasStart THEN start
                      ELSE IF r.rightToLeft THEN rightIndex ELSE leftIndex
    IN NewState(str, r.groups, startIndex, r.direction)

\* a createState that leaves the right edge of the window at the end of
\* the input
CreateStateToEnd(r, str, start, length) ==
    LET leftIndex == start
        rightIndex == Len(str)
        startIndex == IF r.rightToLeft THEN rightIndex ELSE leftIndex
    IN NewBoundedState(str, r.groups, startIndex, leftIndex, rightIndex, r.direction)

\* createState(input, start, length): start and length both given
CreateStateWindow(r, str, start, length) ==
    LET leftIndex == start
        rightIndex == start + length
        startIndex == IF r.rightToLeft THEN rightIndex ELSE leftIndex
    IN NewBoundedState(str, r.groups, startIndex, leftIndex, rightIndex, r.direction)

Capture(index, value) == [index |-> index, length |-> Len(value), value |-> value]

\* The Match that getMatch builds before it calls finishMatch.
NewMatch(s, startIndex) ==
    LET capture == Capture(Min(startIndex, s.currentIndex),
                           Substring(s.str, startIndex, s.currentIndex))
    IN [ success |-> TRUE,
         index |-> capture.index,
         length |-> capture.length,
         value |-> capture.value,
         groups |-> [g \in DOMAIN s.groups |->
                        [i \in 1..Len(s.groups[g]) |->
                            Capture(s.groups[g][i].index, s.groups[g][i].value)]],
         nextIndex |-> IF capture.length = 0
                       THEN s.currentIndex + s.direction
                       ELSE s.currentIndex ]

\* c.index of an undefined stack entry throws while the groups are copied.
CopyThrows(s) == \E g \in DOMAIN s.groups : \E i \in 1..Len(s.groups[g]) : s.groups[g][i] = Undefined

\* this.ast.match(stateAccessor.state) in the loop of getMatch
RootMatch(r, s) == Match(r.ast, [s EXCEPT !.steps = 0])

-----------------------------------------------------------------------------
(* The engine loop: Regex.match and Regex.matches drive Regex.getMatch.    *)
(* One action is one turn of the loop of getMatch; the turn that finds a   *)
(* match runs to the end of getMatch and through the caller's loop body.   *)

InputChars == {"a", "b"}

Strings(n) == UNION {[1..k -> InputChars] : k \in 0..n}

Inputs == Strings(MaxLen) \cup {<<"a", "a", "b", "c", "a">>}

Idle == [event |-> "idle"]

Event(event, startIndex, cursor) ==
    [event |-> event, startIndex |-> startIndex, cursor |-> cursor,
     origin |-> hist.origin]

EngineInit ==
    /\ \E id \in PatternIds, rightToLeft \in BOOLEAN :
          regex = NewRegex(Patterns[id], rightToLeft)
    /\ input \in Inputs
    /\ op \in {"match", "matches"}
    /\ \E hasStart \in BOOLEAN, start \in 0..Len(input) :
          /\ hasStart \/ start = 0
          /\ st = CreateState(regex, input, hasStart, start)
    /\ pc = "search"
    /\ found = <<>>
    /\ hist = [event |-> "start", startIndex |-> st.currentIndex,
               cursor |-> st.currentIndex, origin |-> st.currentIndex]
    /\ toks = <<>>
    /\ last = Idle
    /\ scanner = Idle
    /\ ptext = <<>>
    /\ parser = Idle
    /\ api = Idle

\* a matches() loop body that does not step over a zero-width match
AdvanceAfterEmptyStays(s, match) == s

\* matches(): after a zero-width match, state.advance()
AdvanceAfterEmpty(s, match) == IF match.length = 0 THEN Advance(s, 1) ELSE s

\* The root matches at state.index: getMatch builds the Match, calls
\* finishMatch and returns; match() returns it, matches() pushes it and
\* steps over a zero-width match.
GetMatchFound ==
    /\ pc = "search"
    /\ ~OutOfBounds(st)
    /\ LET r == RootMatch(regex, st)
           m == NewMatch(r.st, st.currentIndex)
           s1 == [FinishMatch(r.st) EXCEPT !.steps = 0]
       IN /\ r.ok
          /\ ~Halted(r.st)
          /\ ~CopyThrows(r.st)
          /\ found' = Append(found, m)
          /\ hist' = Event("found", st.currentIndex, r.st.currentIndex)
          /\ IF op = "match"
             THEN pc' = "done" /\ st' = s1
             ELSE pc' = "search" /\ st' = AdvanceAfterEmpty(s1, m)
    /\ UNCHANGED <<regex, input, op, toks, last, scanner, ptext, parser, api>>

\* The root fails at state.index: the loop advances the cursor by one.
GetMatchFailed ==
    /\ pc = "search"
    /\ ~OutOfBounds(st)
    /\ LET r == RootMatch(regex, st)
       IN /\ ~r.ok
          /\ ~Halted(r.st)
          /\ st' = [Advance(r.st, 1) EXCEPT !.steps = 0]
          /\ hist' = Event("failed", st.currentIndex, r.st.currentIndex)
    /\ UNCHANGED <<regex, input, op, pc, found, toks, last, scanner, ptext, parser, api>>

\* The cursor is out of bounds: getMatch returns undefined; match() returns
\* Match.empty, matches() returns its list.
GetMatchOutOfBounds ==
    /\ pc = "search"
    /\ OutOfBounds(st)
    /\ pc' = "done"
    /\ hist' = Event("end", st.currentIndex, st.currentIndex)
    /\ UNCHANGED <<regex, input, op, st, found, toks, last, scanner, ptext, parser, api>>

\* The root evaluation does not come back within MaxSteps loop turns.
GetMatchHangs ==
    /\ pc = "search"
    /\ ~OutOfBounds(st)
    /\ LET r == RootMatch(regex, st)
       IN /\ ~r.st.thrown
          /\ r.st.steps >= MaxSteps
    /\ pc' = "hung"
    /\ hist' = Event("hung", st.currentIndex, st.currentIndex)
    /\ UNCHANGED <<regex, input, op, st, found, toks, last, scanner, ptext, parser, api>>

\* A TypeError leaves the call: thrown by the root evaluation, or by
\* getMatch when it copies a stack that holds an undefined entry.
GetMatchThrows ==
    /\ pc = "search"
    /\ ~OutOfBounds(st)
    /\ LET r == RootMatch(regex, st)
       IN r.st.thrown \/ (r.ok /\ ~Halted(r.st) /\ CopyThrows(r.st))
    /\ pc' = "threw"
    /\ hist' = Event("threw", st.currentIndex, st.currentIndex)
    /\ UNCHANGED <<regex, input, op, st, found, toks, last, scanner, ptext, parser, api>>

EngineNext ==
    \/ GetMatchFound
    \/ GetMatchFailed
    \/ GetMatchOutOfBounds
    \/ GetMatchHangs
    \/ GetMatchThrows

Spec == EngineInit /\ [][EngineNext]_vars

-----------------------------------------------------------------------------
(* A client of the node protocol: it calls match on the root node of a     *)
(* pattern in a newly created State, and then, while it holds a token,     *)
(* backtrack or discard with that token, as a parent node does with its    *)
(* child.  last records the observable State before the original match     *)
(* and after the last call.                                                *)

Outcome(event, ok, chain, before, s) ==
    [event |-> event, ok |-> ok, chain |-> chain, before |-> before, after |-> View(s)]

Rearm(s) == [s EXCEPT !.steps = 0]

ProtocolInit ==
    /\ \E id \in PatternIds, rightToLeft \in BOOLEAN :
          regex = NewRegex(Patterns[id], rightToLeft)
    /\ input \in Inputs
    /\ op = "protocol"
    /\ \E start \in 0..Len(input) : st = CreateState(regex, input, TRUE, start)
    /\ pc = "fresh"
    /\ found = <<>>
    /\ hist = Idle
    /\ toks = <<>>
    /\ last = Idle
    /\ scanner = Idle
    /\ ptext = <<>>
    /\ parser = Idle
    /\ api = Idle

\* token = node.match(state)
NodeMatch ==
    /\ pc = "fresh"
    /\ LET r == Match(regex.ast, Rearm(st))
       IN /\ ~Halted(r.st)
          /\ st' = Rearm(r.st)
          /\ last' = Outcome("match", r.ok, 0, View(st), r.st)
          /\ IF r.ok
             THEN pc' = "live" /\ toks' = <<r.tok>>
             ELSE pc' = "over" /\ toks' = <<>>
    /\ UNCHANGED <<regex, input, op, found, hist, scanner, ptext, parser, api>>

\* token = node.backtrack(state, token)
NodeBacktrack ==
    /\ pc = "live"
    /\ last.chain < MaxChain
    /\ LET r == Backtrack(regex.ast, Rearm(st), toks[1])
       IN /\ ~Halted(r.st)
          /\ st' = Rearm(r.st)
          /\ last' = Outcome("backtrack", r.ok, last.chain + 1, last.before, r.st)
          /\ IF r.ok
             THEN pc' = "live" /\ toks' = <<r.tok>>
             ELSE pc' = "over" /\ toks' = <<>>
    /\ UNCHANGED <<regex, input, op, found, hist, scanner, ptext, parser, api>>

\* node.discard(state, token)
NodeDiscard ==
    /\ pc = "live"
    /\ LET s1 == Discard(regex.ast, Rearm(st), toks[1])
       IN /\ st' = Rearm(s1)
          /\ last' = Outcome("discard", FALSE, last.chain, last.before, s1)
    /\ pc' = "over"
    /\ toks' = <<>>
    /\ UNCHANGED <<regex, input, op, found, hist, scanner, ptext, parser, api>>

\* The call the client makes next: match, or backtrack with its token.
NodeCall ==
    IF pc = "fresh"
    THEN Match(regex.ast, Rearm(st))
    ELSE Backtrack(regex.ast, Rearm(st), toks[1])

\* The call does not come back within MaxSteps loop turns.
NodeHangs ==
    /\ pc = "fresh" \/ (pc = "live" /\ last.chain < MaxChain)
    /\ ~NodeCall.st.thrown
    /\ NodeCall.st.steps >= MaxSteps
    /\ pc' = "hung"
    /\ last' = Outcome("hung", FALSE, 0, View(st), st)
    /\ UNCHANGED <<regex, input, op, st, found, hist, toks, scanner, ptext, parser, api>>

\* The call throws a TypeError.
NodeThrows ==
    /\ pc = "fresh" \/ (pc = "live" /\ last.chain < MaxChain)
    /\ NodeCall.st.thrown
    /\ pc' = "threw"
    /\ last' = Outcome("threw", FALSE, 0, View(st), st)
    /\ UNCHANGED <<regex, input, op, st, found, hist, toks, scanner, ptext, parser, api>>

ProtocolNext ==
    \/ NodeMatch
    \/ NodeBacktrack
    \/ NodeDiscard
    \/ NodeHangs
    \/ NodeThrows

ProtocolSpec == ProtocolInit /\ [][ProtocolNext]_vars

-----------------------------------------------------------------------------
(* The parser (parser.ts): the Scanner over the pattern text and the part  *)
(* of Parser that builds the group table.  The pattern texts are made of   *)
(* group openings, closings and the flag modifier (?n); they hold no       *)
(* literal characters, alternations or repetitions.                        *)

Chars(pieces) ==
    IF Len(pieces) = 0 THEN <<>>
    ELSE LET F[i \in 1..Len(pieces)] ==
                 IF i = 1 THEN pieces[1] ELSE F[i - 1] \o pieces[i]
         IN F[Len(pieces)]

Pieces ==
    { <<"(">>,
      <<")">>,
      <<"(", "?", "<", "A", ">">>,
      <<"(", "?", "<", "a", ">">>,
      <<"(", "?", "<", "1", ">">>,
      <<"(", "?", "<", "0", "1", ">">>,
      <<"(", "?", "n", ")">> }

Texts == {Chars(q) : q \in UNION {[1..k -> Pieces] : k \in 0..MaxPieces}}

DigitChars == {"0", "1", "2", "3", "4", "5", "6", "7", "8", "9"}

LetterChars == {"A", "B", "a", "b", "c", "n", "i", "m", "s", "x"}

NameStartChars == LetterChars \cup {"_"}

NameChars == NameStartChars \cup DigitChars

FlagChars == {"i", "m", "n", "s", "x"}

\* Scanner.peek(pattern) for a string pattern
StartsWith(str, pattern, index) ==
    /\ index + Len(pattern) <= Len(str)
    /\ SubSeq(str, index + 1, index + Len(pattern)) = pattern

RECURSIVE RunEnd(_, _, _)

\* The index after the longest run of characters of set that starts at index.
RunEnd(str, index, set) ==
    IF index < Len(str) /\ str[index + 1] \in set
    THEN RunEnd(str, index + 1, set)
    ELSE index

\* Parser.parseGroupName: expect(/[_A-Za-z]\w*|\d+/); the token and the
\* index after it.
ParseGroupName(str, index) ==
    LET end == IF index < Len(str) /\ str[index + 1] \in NameStartChars
               THEN RunEnd(str, index, NameChars)
               ELSE RunEnd(str, index, DigitChars)
    IN [ok |-> end > index, name |-> SubSeq(str, index + 1, end), end |-> end]

Digit(n) ==
    CASE n = 0 -> "0" [] n = 1 -> "1" [] n = 2 -> "2" [] n = 3 -> "3" [] n = 4 -> "4"
      [] n = 5 -> "5" [] n = 6 -> "6" [] n = 7 -> "7" [] n = 8 -> "8" [] n = 9 -> "9"

RECURSIVE NumberToString(_)

\* Number.prototype.toString of curGroupIndex
NumberToString(n) ==
    IF n < 10 THEN <<Digit(n)>> ELSE NumberToString(n \div 10) \o <<Digit(n % 10)>>

RECURSIVE StripZeros(_)

\* name.replace(/^0*/, "")
StripZeros(name) ==
    IF Len(name) > 0 /\ name[1] = "0" THEN StripZeros(Tail(name)) ELSE name

\* Map.get on the group table; 0 stands for undefined.  A CaptureGroup is
\* known by the number of its allocation.
GroupsGet(groups, name) ==
    IF \E i \in 1..Len(groups) : groups[i].name = name
    THEN groups[CHOOSE i \in 1..Len(groups) : groups[i].name = name].id
    ELSE 0

\* a getGroup that makes a new CaptureGroup on every call
GetGroupAlwaysNew(p, name) ==
    [ p |-> [p EXCEPT !.groups =
                          IF GroupsGet(p.groups, name) = 0
                          THEN Append(@, [name |-> name, id |-> p.nextId])
                          ELSE [i \in 1..Len(@) |->
                                   IF @[i].name = name
                                   THEN [name |-> name, id |-> p.nextId]
                                   ELSE @[i]],
                      !.nextId = @ + 1],
      group |-> p.nextId ]

\* Parser.getGroup: the parser after the call and the CaptureGroup returned
GetGroup(p, name) ==
    IF GroupsGet(p.groups, name) # 0
    THEN [p |-> p, group |-> GroupsGet(p.groups, name)]
    ELSE [ p |-> [p EXCEPT !.groups = Append(@, [name |-> name, id |-> p.nextId]),
                           !.nextId = @ + 1],
           group |-> p.nextId ]

\* Flags.has
FlagsHas(stack, flag) == \E i \in 1..Len(stack) : flag \in stack[i]

\* Flags.set(setFlags, ""): the flags go to the innermost scope
FlagsSet(stack, setFlags) ==
    [stack EXCEPT ![Len(stack)] = @ \cup {setFlags[i] : i \in 1..Len(setFlags)}]

\* new Parser(regex, flags)
NewParser(flags) ==
    [ curGroupIndex |-> 1,
      groups |-> <<>>,
      nextId |-> 1,
      flags |-> <<flags>>,
      open |-> 0,
      atoms |-> <<>>,
      postParseActions |-> <<>> ]

\* A Group node as parseAtom leaves it: group = 0 until a post-parse action
\* sets it.
GroupNode(bare, written, group) == [bare |-> bare, written |-> written, group |-> group]

\* parseRegex begins the body of a group: flags.push()
EnterRegex(p) == [p EXCEPT !.flags = Append(@, {}), !.open = @ + 1]

ParserInit ==
    /\ ptext \in Texts
    /\ scanner = [index |-> 0]
    /\ \E flags \in {{}, {"n"}} : parser = NewParser(flags)
    /\ op = "parse"
    /\ pc = "new"
    /\ regex = Idle
    /\ input = <<>>
    /\ st = Idle
    /\ found = <<>>
    /\ hist = Idle
    /\ toks = <<>>
    /\ last = Idle
    /\ api = Idle

\* parse() enters parseRegex: flags.push()
ParseStart ==
    /\ pc = "new"
    /\ pc' = "parsing"
    /\ parser' = [parser EXCEPT !.flags = Append(@, {})]
    /\ UNCHANGED <<regex, input, op, st, found, hist, toks, last, scanner, ptext, api>>

\* parseSequence: scanner.peek(/[^)|]/)
AtAtom ==
    /\ pc = "parsing"
    /\ scanner.index < Len(ptext)
    /\ ptext[scanner.index + 1] # ")"

\* parseAtom, branch (?<name>: a named capturing group
ParseNamedGroup ==
    /\ AtAtom
    /\ StartsWith(ptext, <<"(", "?", "<">>, scanner.index)
    /\ LET n == ParseGroupName(ptext, scanner.index + 3)
           closed == n.ok /\ StartsWith(ptext, <<">">>, n.end)
           g == GetGroup(parser, n.name)
           node == Len(parser.atoms) + 1
       IN IF ~closed
          THEN /\ pc' = "error"
               /\ scanner' = [scanner EXCEPT !.index = n.end]
               /\ UNCHANGED parser
          ELSE /\ pc' = "parsing"
               /\ scanner' = [scanner EXCEPT !.index = n.end + 1]
               /\ parser' =
                     IF n.name[1] = "0"
                     THEN EnterRegex(
                              [parser EXCEPT
                                  !.atoms = Append(@, GroupNode(FALSE, n.name, 0)),
                                  !.postParseActions =
                                      Append(@, [node |-> node, name |-> n.name])])
                     ELSE EnterRegex(
                              [g.p EXCEPT
                                  !.atoms = Append(@, GroupNode(FALSE, n.name, g.group))])
    /\ UNCHANGED <<regex, input, op, st, found, hist, toks, last, ptext, api>>

\* parseAtom, branch (?flags): a flags modifier, no atom
ParseFlagsModifier ==
    /\ AtAtom
    /\ StartsWith(ptext, <<"(", "?">>, scanner.index)
    /\ ~StartsWith(ptext, <<"(", "?", "<">>, scanner.index)
    /\ LET end == RunEnd(ptext, scanner.index + 2, LetterChars)
           setFlags == SubSeq(ptext, scanner.index + 3, end)
           valid == /\ end > scanner.index + 2
                    /\ \A i \in 1..Len(setFlags) : setFlags[i] \in FlagChars
                    /\ StartsWith(ptext, <<")">>, end)
       IN IF valid
          THEN /\ pc' = "parsing"
               /\ scanner' = [scanner EXCEPT !.index = end + 1]
               /\ parser' = [parser EXCEPT !.flags = FlagsSet(@, setFlags)]
          ELSE /\ pc' = "error"
               /\ scanner' = [scanner EXCEPT !.index = end]
               /\ UNCHANGED parser
    /\ UNCHANGED <<regex, input, op, st, found, hist, toks, last, ptext, api>>

\* parseAtom, branch (: a capturing group numbered curGroupIndex, or a
\* non-capturing group under flag n
ParseBareGroup ==
    /\ AtAtom
    /\ StartsWith(ptext, <<"(">>, scanner.index)
    /\ ~StartsWith(ptext, <<"(", "?">>, scanner.index)
    /\ LET g == GetGroup(parser, NumberToString(parser.curGroupIndex))
       IN parser' =
              IF FlagsHas(parser.flags, "n")
              THEN EnterRegex(parser)
              ELSE EnterRegex(
                       [g.p EXCEPT !.curGroupIndex = @ + 1,
                                   !.atoms = Append(@, GroupNode(TRUE, <<>>, g.group))])
    /\ scanner' = [scanner EXCEPT !.index = @ + 1]
    /\ UNCHANGED <<regex, input, op, pc, st, found, hist, toks, last, ptext, api>>

\* A ")" ends parseSequence and parseRegex (flags.pop()); the group that is
\* open consumes it; with no group open, parse() rejects it.
ParseClose ==
    /\ pc = "parsing"
    /\ StartsWith(ptext, <<")">>, scanner.index)
    /\ IF parser.open > 0
       THEN /\ parser' = [parser EXCEPT !.flags = Front(@), !.open = @ - 1]
            /\ scanner' = [scanner EXCEPT !.index = @ + 1]
            /\ pc' = "parsing"
       ELSE /\ pc' = "error"
            /\ UNCHANGED <<parser, scanner>>
    /\ UNCHANGED <<regex, input, op, st, found, hist, toks, last, ptext, api>>

RECURSIVE RunPostParse(_, _)

\* this.postParseActions.forEach(f => f()), from action i on: the parser it
\* leaves and whether no action threw.
RunPostParse(p, i) ==
    IF i > Len(p.postParseActions) THEN [ok |-> TRUE, p |-> p]
    ELSE LET a == p.postParseActions[i]
             group == GroupsGet(p.groups, StripZeros(a.name))
         IN IF group = 0
            THEN [ok |-> FALSE, p |-> p]
            ELSE RunPostParse([p EXCEPT !.atoms[a.node].group = group], i + 1)

\* The end of the text: an open group misses its ")"; otherwise parse() runs
\* the post-parse actions and returns.
ParseEnd ==
    /\ pc = "parsing"
    /\ scanner.index = Len(ptext)
    /\ LET r == RunPostParse(parser, 1)
       IN IF parser.open = 0 /\ r.ok
          THEN pc' = "parsed" /\ parser' = [r.p EXCEPT !.flags = Front(@)]
          ELSE pc' = "error" /\ UNCHANGED parser
    /\ UNCHANGED <<regex, input, op, st, found, hist, toks, last, scanner, ptext, api>>

ParserNext ==
    \/ ParseStart
    \/ ParseNamedGroup
    \/ ParseFlagsModifier
    \/ ParseBareGroup
    \/ ParseClose
    \/ ParseEnd

ParserSpec == ParserInit /\ [][ParserNext]_vars

-----------------------------------------------------------------------------
(* Properties of the engine loop. *)

CapturesOf(m) ==
    UNION {{m.groups[g][k] : k \in 1..Len(m.groups[g])} : g \in DOMAIN m.groups}

IsSpanOfInput(c) ==
    /\ c.length >= 0
    /\ c.index >= 0
    /\ c.index + c.length <= Len(input)
    /\ c.value = Substring(input, c.index, c.index + c.length)

\* C1: every returned Match, and every Capture of every Group of it, has
\* value = input.substring(index, index + length) with length >= 0, and the
\* index of the Match is the smaller of the attempt's start and end cursor,
\* left-to-right and right-to-left.
C1_ValueIsSubstringAtIndex ==
    /\ \A i \in 1..Len(found) :
          /\ IsSpanOfInput(found[i])
          /\ \A g \in DOMAIN found[i].groups : \A k \in 1..Len(found[i].groups[g]) :
                IsSpanOfInput(found[i].groups[g][k])
    /\ hist.event = "found" =>
          /\ found[Len(found)].index = Min(hist.startIndex, hist.cursor)
          /\ found[Len(found)].index + found[Len(found)].length = Max(hist.startIndex, hist.cursor)

\* A right-to-left match of positive length that holds a non-empty capture.
C1_Witness ==
    /\ regex.rightToLeft
    /\ hist.event = "found"
    /\ found[Len(found)].length > 1
    /\ \E c \in CapturesOf(found[Len(found)]) : c.length > 0

StartOf(m) == IF regex.rightToLeft THEN m.index + m.length ELSE m.index

EndOf(m) == IF regex.rightToLeft THEN m.index ELSE m.index + m.length

\* C2: in the list matches() builds, consecutive matches do not overlap and
\* their index is non-decreasing left-to-right, non-increasing right-to-left.
C2_MatchesDoNotOverlap ==
    op = "matches" =>
        \A i \in 1..(Len(found) - 1) :
            IF regex.rightToLeft
            THEN /\ found[i + 1].index + found[i + 1].length <= found[i].index
                 /\ found[i + 1].index <= found[i].index
            ELSE /\ found[i].index + found[i].length <= found[i + 1].index
                 /\ found[i].index <= found[i + 1].index

\* A matches() walk that has returned two matches of positive length, one
\* directly after the other.
C2_Witness ==
    /\ op = "matches"
    /\ Len(found) >= 2
    /\ found[1].length > 0
    /\ found[2].length > 0
    /\ EndOf(found[1]) = StartOf(found[2])

ExpectedAStar ==
    << [index |-> 0, value |-> <<"a", "a">>],
       [index |-> 2, value |-> <<>>],
       [index |-> 3, value |-> <<>>],
       [index |-> 4, value |-> <<"a">>],
       [index |-> 5, value |-> <<>>] >>

\* The search start of the next attempt, after a match has been returned.
NextStartIsRight ==
    (op = "matches" /\ hist.event = "found") =>
        st.currentIndex = IF hist.startIndex = hist.cursor
                          THEN hist.startIndex + regex.direction
                          ELSE hist.cursor

SearchStartAdvances ==
    op = "matches" =>
        \A i \in 1..(Len(found) - 1) :
            IF regex.rightToLeft
            THEN StartOf(found[i + 1]) < StartOf(found[i])
            ELSE StartOf(found[i + 1]) > StartOf(found[i])

AStarOnAabca ==
    ( /\ op = "matches"
      /\ pc = "done"
      /\ regex.text = "a*"
      /\ ~regex.rightToLeft
      /\ input = <<"a", "a", "b", "c", "a">>
      /\ hist.origin = 0 ) =>
        found = [i \in 1..5 |->
                    [found[i] EXCEPT !.index = ExpectedAStar[i].index,
                                     !.value = ExpectedAStar[i].value]]

\* The number of start positions left before the cursor is out of bounds.
Remaining(s) ==
    IF s.direction = 1 THEN Len(s.str) + 1 - s.currentIndex ELSE s.currentIndex + 1

\* Every turn of the walk whose root evaluation comes back either ends the
\* walk or leaves fewer start positions.
WalkProgress ==
    (op = "matches" /\ pc = "search") =>
        \/ pc' # "search"
        \/ /\ Remaining(st') < Remaining(st)
           /\ Remaining(st') >= 0

\* C3: in a matches() walk the next search starts one position past a
\* zero-width match (i+1 left-to-right, i-1 right-to-left) and at the end
\* cursor of a non-empty match; the search start of consecutive matches
\* strictly advances; the walk terminates when every root evaluation does,
\* as each turn leaves fewer start positions; a* on "aabca" yields
\* (0,"aa"), (2,""), (3,""), (4,"a"), (5,"").
C3_ZeroWidthAdvance ==
    /\ [](NextStartIsRight /\ SearchStartAdvances /\ AStarOnAabca)
    /\ [][WalkProgress]_vars

\* The walk of a* over "aabca" has returned its five matches.
C3_Witness ==
    /\ op = "matches"
    /\ pc = "done"
    /\ regex.text = "a*"
    /\ ~regex.rightToLeft
    /\ input = <<"a", "a", "b", "c", "a">>
    /\ hist.origin = 0
    /\ Len(found) = 5
    /\ found[2].length = 0
    /\ found[3].index = 3

\* The State of a first attempt of this call at position p: empty capture
\* stacks, previousMatchEnd at the search origin.
FreshAt(p) ==
    [CreateState(regex, input, TRUE, hist.origin) EXCEPT !.currentIndex = p]

\* The root expression succeeds at position p.
AdmitsMatch(p) ==
    LET r == RootMatch(regex, FreshAt(p))
    IN r.ok /\ ~Halted(r.st) /\ ~CopyThrows(r.st)

\* The start positions the search has passed over when match() returns.
PassedOver ==
    IF hist.event = "found"
    THEN IF regex.rightToLeft
         THEN (hist.startIndex + 1)..hist.origin
         ELSE hist.origin..(hist.startIndex - 1)
    ELSE IF regex.rightToLeft THEN 0..hist.origin ELSE hist.origin..Len(input)

\* C4: match() moves exactly one position in the search direction after a
\* failed attempt and returns the match of the first position at which the
\* root succeeds: no position it passed over admits a match; when the cursor
\* passes the bound without a success, the result is a failed match.
C4_FirstPositionWins ==
    /\ (op = "match" /\ hist.event = "failed") =>
          st.currentIndex = hist.startIndex + regex.direction
    /\ (op = "match" /\ pc = "done") =>
          /\ \A p \in PassedOver : ~AdmitsMatch(p)
          /\ hist.event = "end" => found = <<>>

\* C5: match and every chain of backtracks of a pattern with a Repetition,
\* greedy or lazy, whose atom can match the empty string come back.
C5_RepetitionTerminates == pc # "hung"

\* C6: when match returns no token, the cursor, the direction and every
\* capture stack are what they were before the call.
C6_FailedMatchRestores ==
    (last.event = "match" /\ ~last.ok) => last.after = last.before

\* C7: a backtrack that returns no token, and a discard, leave the cursor,
\* the direction and every capture stack as they were before the original
\* match call.
C7_FailedBacktrackRestores ==
    (last.event \in {"backtrack", "discard"} /\ ~last.ok) => last.after = last.before

\* C8: whenever the engine loop starts evaluating the root at a start
\* position, every capture stack is empty.
C8_StacksEmptyAtAttempt ==
    (pc = "search" /\ ~OutOfBounds(st)) =>
        \A g \in DOMAIN st.groups : st.groups[g] = <<>>

\* C9: a pop is only performed on a non-empty stack, so no capture stack ever
\* holds an undefined entry.
C9_NoUndefinedEntry ==
    \A g \in DOMAIN st.groups : \A i \in 1..Len(st.groups[g]) :
        st.groups[g][i] # Undefined

-----------------------------------------------------------------------------
(* Properties of the parser's group table. *)

\* The bare capturing groups among the first i Group nodes.
BareCount(i) == Cardinality({j \in 1..i : parser.atoms[j].bare})

\* The name under which a Group node's identity is in the group table.
TableName(i) ==
    IF parser.atoms[i].bare THEN NumberToString(BareCount(i))
    ELSE StripZeros(parser.atoms[i].written)

\* C10: after a parse, the group table holds one identity per name and no
\* identity under two names; Group nodes of the same case-sensitive name, and
\* a group numbered k explicitly and the k-th bare group, hold one identity;
\* the bare groups are numbered 1, 2, ... in the order of their opening
\* parenthesis, whatever numbers named groups use.
C10_OneIdentityPerName ==
    pc = "parsed" =>
        /\ \A i, j \in 1..Len(parser.groups) :
              (parser.groups[i].name = parser.groups[j].name) = (i = j)
        /\ \A i, j \in 1..Len(parser.groups) :
              (parser.groups[i].id = parser.groups[j].id) = (i = j)
        /\ \A i \in 1..Len(parser.atoms) :
              /\ parser.atoms[i].group # 0
              /\ parser.atoms[i].group = GroupsGet(parser.groups, TableName(i))
        /\ \A i, j \in 1..Len(parser.atoms) :
              (TableName(i) = TableName(j)) = (parser.atoms[i].group = parser.atoms[j].group)
        /\ parser.curGroupIndex = BareCount(Len(parser.atoms)) + 1

\* A parse of a text in which a named group comes before a bare group and
\* the two hold one identity, as in (?<1>)().
C10_Witness ==
    /\ pc = "parsed"
    /\ \E i, j \in 1..Len(parser.atoms) :
          /\ i < j
          /\ ~parser.atoms[i].bare
          /\ parser.atoms[j].bare
          /\ parser.atoms[i].group = parser.atoms[j].group


-----------------------------------------------------------------------------
(* Match (result.ts): a failed Match, the collapsed group list and the     *)
(* replacement evaluator Match.result.  A Match keeps the keys of its      *)
(* group map in the order of the group table of its Regex, with "0" set    *)
(* last.                                                                   *)

RECURSIVE Join(_)

\* the string that a run of characters spells (match[1] of the Scanner)
Join(chars) == IF chars = <<>> THEN "" ELSE chars[1] \o Join(Tail(chars))

\* Match.empty: new Match() without a capture
EmptyMatch ==
    [ success |-> FALSE, index |-> 0, length |-> 0, value |-> <<>>,
      groups |-> <<>>, nextIndex |-> 0 ]

\* the keys of Match.groups: the group table of the Regex, then set("0", ...)
GroupKeys(r) ==
    IF \E i \in 1..Len(r.names) : r.names[i] = "0" THEN r.names ELSE Append(r.names, "0")

\* largest group number a pattern of the model names
MaxGroupNumber == 20

\* /^\d+$/.test(k), for the keys of a group table
IsNumbered(k) == \E n \in 0..MaxGroupNumber : Join(NumberToString(n)) = k

\* Number(k) of a numbered key
NumberOfKey(k) == CHOOSE n \in 0..MaxGroupNumber : Join(NumberToString(n)) = k

\* filter(k => /^\d+$/.test(k)) when numbered, filter(k => !/^\d+$/.test(k))
\* when not
FilterKeys(q, numbered) ==
    LET F[i \in 0..Len(q)] ==
            IF i = 0 THEN <<>>
            ELSE IF IsNumbered(q[i]) = numbered THEN Append(F[i - 1], q[i]) ELSE F[i - 1]
    IN F[Len(q)]

RECURSIVE SortByNumber(_)

\* sort((a, b) => Number(a) - Number(b)) of distinct numbered keys
SortByNumber(q) ==
    IF q = <<>> THEN <<>>
    ELSE LET least == CHOOSE i \in 1..Len(q) :
                          \A j \in 1..Len(q) : NumberOfKey(q[i]) <= NumberOfKey(q[j])
             rest == [j \in 1..(Len(q) - 1) |-> IF j < least THEN q[j] ELSE q[j + 1]]
         IN <<q[least]>> \o SortByNumber(rest)

RECURSIVE Collapse(_, _, _)

\* the loop of the Match constructor that interleaves the two lists
Collapse(numberedGroups, namedGroups, i) ==
    IF numberedGroups # <<>> /\ namedGroups # <<>>
    THEN IF numberedGroups[1] = Join(NumberToString(i))
         THEN <<numberedGroups[1]>> \o Collapse(Tail(numberedGroups), namedGroups, i + 1)
         ELSE <<namedGroups[1]>> \o Collapse(numberedGroups, Tail(namedGroups), i + 1)
    ELSE numberedGroups \o namedGroups

\* Match.collapsedGroupList
CollapsedGroupList(keys) ==
    Collapse(SortByNumber(FilterKeys(keys, TRUE)), FilterKeys(keys, FALSE), 0)

\* Map.has on Match.groups
GroupsHas(m, name) == name = "0" \/ name \in DOMAIN m.groups

\* Group.value: the value of the last capture, "" when there is none
GroupValue(m, name) ==
    IF name = "0" THEN m.value
    ELSE IF Len(m.groups[name]) > 0 THEN m.groups[name][Len(m.groups[name])].value
    ELSE <<>>

\* String.prototype.substr(start) with start >= 0
SubstrFrom(s, start) == SubSeq(s, Min(start, Len(s)) + 1, Len(s))

\* scanner.peek(/\{([_A-Za-z]\w*|\d+)\}/) at index
PeekBracedName(str, index) ==
    LET name == ParseGroupName(str, index + 1)
    IN IF StartsWith(str, <<"{">>, index) /\ name.ok /\ StartsWith(str, <<"}">>, name.end)
       THEN [ok |-> TRUE, name |-> name.name, end |-> name.end + 1]
       ELSE [ok |-> FALSE, name |-> <<>>, end |-> index]

\* scanner.peek(/(\d+)/) || scanner.peek(/\{([_A-Za-z]\w*|\d+)\}/): match[1]
\* and the index after the token
PeekGroupReference(str, index) ==
    LET end == RunEnd(str, index, DigitChars)
    IN IF end > index
       THEN [ok |-> TRUE, name |-> SubSeq(str, index + 1, end), end |-> end]
       ELSE PeekBracedName(str, index)

\* a $+ that skips the groups without a capture
LastGroupSkipsFailed(m, keys) ==
    LET list == CollapsedGroupList(keys)
        good == {i \in 1..Len(list) : list[i] = "0" \/ Len(m.groups[list[i]]) > 0}
    IN GroupValue(m, list[CHOOSE i \in good : \A j \in good : j <= i])

\* $+: the value of the last entry of the collapsed group list
LastGroup(m, keys) ==
    LET list == CollapsedGroupList(keys)
    IN GroupValue(m, list[Len(list)])

\* scanner.expect(/[^$]*/): the index after the literal text
LiteralEnd(str, index) ==
    RunEnd(str, index, {str[k] : k \in 1..Len(str)} \ {"$"})

\* a substitution that takes the first digit alone as the group number
SubstitutionFirstDigit(m, keys, str, replacement, i) ==
    IF i < Len(replacement) /\ replacement[i + 1] \in DigitChars
          /\ GroupsHas(m, replacement[i + 1])
    THEN [text |-> GroupValue(m, replacement[i + 1]), end |-> i + 1]
    ELSE [text |-> <<"$">>, end |-> i]

\* one turn of the loop `while (scanner.consume("$"))`, entered with the
\* scanner behind the $: the text it adds and the index it leaves
Substitution(m, keys, str, replacement, i) ==
    LET ref == PeekGroupReference(replacement, i)
        Is(c) == StartsWith(replacement, <<c>>, i)
    IN IF Is("$") THEN [text |-> <<"$">>, end |-> i + 1]
       ELSE IF ref.ok /\ GroupsHas(m, Join(ref.name))
            THEN [text |-> GroupValue(m, Join(ref.name)), end |-> ref.end]
       ELSE IF Is("&") THEN [text |-> m.value, end |-> i + 1]
       ELSE IF Is("+") THEN [text |-> LastGroup(m, keys), end |-> i + 1]
       ELSE IF Is("_") THEN [text |-> str, end |-> i + 1]
       ELSE IF Is("`") THEN [text |-> SubSeq(str, 1, m.index), end |-> i + 1]
       ELSE IF Is("'") THEN [text |-> SubstrFrom(str, m.index + m.length), end |-> i + 1]
       ELSE [text |-> <<"$">>, end |-> i]

RECURSIVE ResultLoop(_, _, _, _, _)

\* the loop of Match.result from scanner.index = index
ResultLoop(m, keys, str, replacement, index) ==
    IF ~StartsWith(replacement, <<"$">>, index) THEN <<>>
    ELSE LET sub == Substitution(m, keys, str, replacement, index + 1)
             end == LiteralEnd(replacement, sub.end)
         IN sub.text \o SubSeq(replacement, sub.end + 1, end)
                     \o ResultLoop(m, keys, str, replacement, end)

\* Match.result(replacement) of a successful Match of input str
Result(m, keys, str, replacement) ==
    LET end == LiteralEnd(replacement, 0)
    IN SubSeq(replacement, 1, end) \o ResultLoop(m, keys, str, replacement, end)


-----------------------------------------------------------------------------
(* The public calls of Regex and Match: replace and split collect all      *)
(* matches with matches() and then cut the input; a client of match()      *)
(* calls result(replacement) or nextMatch() on the Match it was handed.    *)
(* api holds the arguments of the call and the locals of replace.          *)

\* largest count passed to replace and split
MaxCount == 3

ResultPatterns ==
    << Pattern("(a)(b(?<20>c))",
               Sequence(<<Group(Seq1(Lit("a")), "1"),
                          Group(Sequence(<<Lit("b"), Group(Seq1(Lit("c")), "20")>>), "2")>>),
               <<"1", "2", "20">>),
       Pattern("(?<A>a)(?<2>b)(?<B>c)",
               Sequence(<<Group(Seq1(Lit("a")), "A"), Group(Seq1(Lit("b")), "2"),
                          Group(Seq1(Lit("c")), "B")>>),
               <<"A", "2", "B">>),
       Pattern("(a)(b)?",
               Sequence(<<Group(Seq1(Lit("a")), "1"), Opt(Group(Seq1(Lit("b")), "2"))>>),
               <<"1", "2">>),
       Pattern("(a)?b",
               Sequence(<<Opt(Group(Seq1(Lit("a")), "1")), Lit("b")>>), <<"1">>),
       Pattern("ab", Sequence(<<Lit("a"), Lit("b")>>), <<>>),
       Pattern("(?<B>a)(?<A>b)?",
               Sequence(<<Group(Seq1(Lit("a")), "B"), Opt(Group(Seq1(Lit("b")), "A"))>>),
               <<"B", "A">>) >>

ResultInputs == { <<"a", "b", "c">>, <<"a", "b">>, <<"a">>, <<"b">>, <<"c", "a", "b">> }

TemplatePieces ==
    { <<"$", "+">>, <<"$", "1">>, <<"$", "1", "0">>, <<"$", "2", "0">>, <<"$", "0", "1">>,
      <<"$", "{", "1", "}">>, <<"$", "{", "A", "}">>, <<"$", "{", "3", "}">>,
      <<"$", "$">>, <<"$", "&">>, <<"$", "_">>, <<"$", "`">>, <<"$", "'">>,
      <<"$">>, <<"0">>, <<"-">> }

\* the templates: no piece, one piece, or two
Templates == {a \o b : a, b \in TemplatePieces \cup {<<>>}}

\* the patterns of the library that replace and split run on
ApiPatternIds == {1, 3, 6, 8, 9, 14, 17, 19}

\* replacement arguments of replace: a function of the Match, or a template
Replacements ==
    { [kind |-> "function", text |-> <<>>],
      [kind |-> "string", text |-> <<"$", "&", "$", "&">>] }

\* the callback m => "<" + m.value + ">"
Callback(m) == <<"<">> \o m.value \o <<">">>

\* Array.prototype.join("") of strings
JoinStrings(q) == Chars(q)

\* Array.prototype.splice(n) for n >= 0: the elements that stay
Splice(q, n) == SubSeq(q, 1, Min(n, Len(q)))

\* what match() returned: the Match getMatch built, or Match.empty
Held == IF hist.event = "found" THEN found[Len(found)] ELSE EmptyMatch

ApiInit ==
    /\ \/ /\ op \in {"replace", "split"}
          /\ \E id \in ApiPatternIds, rightToLeft \in BOOLEAN :
                regex = NewRegex(Patterns[id], rightToLeft)
          /\ input \in Inputs
          /\ \E count \in -2..MaxCount, hasStart \in BOOLEAN, start \in {0, 1},
                replacement \in Replacements :
                /\ hasStart \/ start = 0
                /\ hasStart => start = Min(1, Len(input))
                /\ op = "split" => replacement.kind = "function"
                /\ api = [ count |-> count, hasStart |-> hasStart, start |-> start,
                           replacement |-> replacement, matches |-> <<>>, k |-> 1,
                           index |-> 0, substrings |-> <<>>, calls |-> 0, out |-> <<>> ]
       \/ /\ op = "match"
          /\ \E id \in 1..Len(ResultPatterns), rightToLeft \in BOOLEAN :
                regex = NewRegex(ResultPatterns[id], rightToLeft)
          /\ input \in ResultInputs
          /\ api = [ count |-> 0, hasStart |-> FALSE, start |-> 0,
                     replacement |-> [kind |-> "none", text |-> <<>>], matches |-> <<>>, k |-> 1,
                     index |-> 0, substrings |-> <<>>, calls |-> 0, out |-> <<>> ]
    /\ pc = "called"
    /\ st = Idle
    /\ found = <<>>
    /\ hist = Idle
    /\ toks = <<>>
    /\ last = Idle
    /\ scanner = Idle
    /\ ptext = <<>>
    /\ parser = Idle

\* replace: `if (count < -1) throw`; split: `if (count < 0) throw`
CountRejected ==
    \/ op = "replace" /\ api.count < -1
    \/ op = "split" /\ api.count < 0

\* replace and split throw on their count before anything else
ApiRejectsCount ==
    /\ pc = "called"
    /\ CountRejected
    /\ pc' = "raised"
    /\ UNCHANGED <<regex, input, op, st, found, hist, toks, last, scanner, ptext, parser, api>>

\* match(), or matches() called by replace and split: createState, and the
\* loop of getMatch begins
ApiSearches ==
    /\ pc = "called"
    /\ ~CountRejected
    /\ st' = CreateState(regex, input, api.hasStart, api.start)
    /\ pc' = "search"
    /\ hist' = [event |-> "start", startIndex |-> st'.currentIndex,
                cursor |-> st'.currentIndex, origin |-> st'.currentIndex]
    /\ UNCHANGED <<regex, input, op, found, toks, last, scanner, ptext, parser, api>>

\* a replace that keeps the search order of a right-to-left regex
OrderLeftToRightKeeps(r, matches) == matches

\* `if (this.rightToLeft) matches.reverse()`
OrderLeftToRight(r, matches) == IF r.rightToLeft THEN Reverse(matches) ELSE matches

\* replace, once matches() has returned: splice(count), reverse
ReplaceSplices ==
    /\ pc = "done"
    /\ op = "replace"
    /\ LET kept == IF api.count >= 0 THEN Splice(found, api.count) ELSE found
       IN api' = [api EXCEPT !.matches = OrderLeftToRight(regex, kept)]
    /\ pc' = "loop"
    /\ UNCHANGED <<regex, input, op, st, found, hist, toks, last, scanner, ptext, parser>>

\* replacementFunc(match)
ReplacementFunc(r, str, replacement, m) ==
    IF replacement.kind = "function" THEN Callback(m)
    ELSE Result(m, GroupKeys(r), str, replacement.text)

\* one turn of the loop of replace over the matches
ReplaceEvaluates ==
    /\ pc = "loop"
    /\ op = "replace"
    /\ api.k <= Len(api.matches)
    /\ LET match == api.matches[api.k]
       IN api' = [api EXCEPT
                    !.substrings = @ \o <<Substring(input, api.index, match.index),
                                          ReplacementFunc(regex, input, api.replacement, match)>>,
                    !.index = match.index + match.length,
                    !.calls = @ + 1,
                    !.k = @ + 1]
    /\ UNCHANGED <<regex, input, op, pc, st, found, hist, toks, last, scanner, ptext, parser>>

\* the end of replace: the rest of the input, and join
ReplaceReturns ==
    /\ pc = "loop"
    /\ op = "replace"
    /\ api.k > Len(api.matches)
    /\ LET substrings == Append(api.substrings, SubstrFrom(input, api.index))
       IN api' = [api EXCEPT !.substrings = substrings, !.out = JoinStrings(substrings)]
    /\ pc' = "returned"
    /\ UNCHANGED <<regex, input, op, st, found, hist, toks, last, scanner, ptext, parser>>

RECURSIVE SplitLoop(_, _, _, _)

\* the loop of split over the matches from position k, with index
SplitLoop(str, matches, k, index) ==
    IF k > Len(matches) THEN <<SubstrFrom(str, index)>>
    ELSE <<Substring(str, index, matches[k].index)>>
             \o SplitLoop(str, matches, k + 1, matches[k].index + matches[k].length)

\* a split that cuts at count matches
SpliceForSplitKeepsCount(matches, count) ==
    IF count > 0 THEN Splice(matches, count) ELSE matches

\* split: `if (count > 0) matches.splice(count - 1)`
SpliceForSplit(matches, count) ==
    IF count > 0 THEN Splice(matches, count - 1) ELSE matches

\* split, once matches() has returned
SplitReturns ==
    /\ pc = "done"
    /\ op = "split"
    /\ LET matches == OrderLeftToRight(regex, SpliceForSplit(found, api.count))
       IN api' = [api EXCEPT !.matches = matches,
                             !.substrings = SplitLoop(input, matches, 1, 0),
                             !.out = SplitLoop(input, matches, 1, 0)]
    /\ pc' = "returned"
    /\ UNCHANGED <<regex, input, op, st, found, hist, toks, last, scanner, ptext, parser>>

\* Match.result(replacement) on the Match that match() returned
MatchResult ==
    /\ pc = "done"
    /\ op = "match"
    /\ \E replacement \in Templates :
          IF ~Held.success
          THEN /\ pc' = "raised"
               /\ api' = [api EXCEPT !.replacement = [kind |-> "string", text |-> replacement],
                                     !.calls = @ + 1]
          ELSE /\ pc' = "returned"
               /\ api' = [api EXCEPT !.replacement = [kind |-> "string", text |-> replacement],
                                     !.calls = @ + 1,
                                     !.out = Result(Held, GroupKeys(regex), input, replacement)]
    /\ UNCHANGED <<regex, input, op, st, found, hist, toks, last, scanner, ptext, parser>>

\* Match.nextMatch(): Match.empty for a failed Match, else a new match()
\* from nextIndex
NextMatch ==
    /\ pc = "done"
    /\ op = "match"
    /\ IF ~Held.success
       THEN /\ api.k = 1
            /\ api' = [api EXCEPT !.k = 2, !.matches = <<EmptyMatch>>]
            /\ UNCHANGED <<pc, st, hist>>
       ELSE /\ st' = CreateState(regex, input, TRUE, Held.nextIndex)
            /\ pc' = "search"
            /\ hist' = [event |-> "start", startIndex |-> st'.currentIndex,
                        cursor |-> st'.currentIndex, origin |-> st'.currentIndex]
            /\ UNCHANGED api
    /\ UNCHANGED <<regex, input, op, found, toks, last, scanner, ptext, parser>>

ApiNext ==
    \/ ApiRejectsCount
    \/ ApiSearches
    \/ GetMatchFound
    \/ GetMatchFailed
    \/ GetMatchOutOfBounds
    \/ GetMatchHangs
    \/ GetMatchThrows
    \/ ReplaceSplices
    \/ ReplaceEvaluates
    \/ ReplaceReturns
    \/ SplitReturns
    \/ MatchResult
    \/ NextMatch

ApiSpec == ApiInit /\ [][ApiNext]_vars


-----------------------------------------------------------------------------
(* Claims on replace, split and the error outcomes. *)

\* the matches that a call with this count uses, of the found ones, in
\* search order
FirstMatches(n) == SubSeq(found, 1, Min(n, Len(found)))

RECURSIVE SortBySpan(_)

\* matches in ascending textual order: by index, then by end
SortBySpan(q) ==
    IF q = <<>> THEN <<>>
    ELSE LET Before(a, b) == \/ a.index < b.index
                             \/ a.index = b.index /\ a.length <= b.length
             least == CHOOSE i \in 1..Len(q) : \A j \in 1..Len(q) : Before(q[i], q[j])
             rest == [j \in 1..(Len(q) - 1) |-> IF j < least THEN q[j] ELSE q[j + 1]]
         IN <<q[least]>> \o SortBySpan(rest)

RECURSIVE Spliced(_, _, _, _)

\* str with the spans of the matches q (ascending) from position from on
\* replaced by the texts of news, every other character copied
Spliced(str, q, from, news) ==
    IF q = <<>> THEN SubSeq(str, from + 1, Len(str))
    ELSE SubSeq(str, from + 1, q[1].index) \o news[1]
             \o Spliced(str, Tail(q), q[1].index + q[1].length, Tail(news))

\* the matches a finished replace had to substitute
ReplaceChosen == IF api.count = -1 THEN found ELSE FirstMatches(api.count)

\* C11: a finished replace has substituted exactly the first min(count, n)
\* matches of the search order (all for -1, none for 0), has copied every
\* other character, and has assembled the output in ascending index order,
\* also for a right-to-left regex; the callback is not invoked before all
\* matches are collected.
C11_ReplaceSubstitutesFirstMatches ==
    /\ (op = "replace" /\ pc = "returned") =>
          LET chosen == SortBySpan(ReplaceChosen)
              news == [i \in 1..Len(chosen) |->
                          ReplacementFunc(regex, input, api.replacement, chosen[i])]
          IN /\ api.matches = chosen
             /\ api.calls = Len(chosen)
             /\ api.out = Spliced(input, chosen, 0, news)
    /\ (op = "replace" /\ api.calls > 0) =>
          /\ pc \in {"loop", "returned"}
          /\ hist.event = "end"

\* A right-to-left replace that left some matches out has returned.
C11_Witness ==
    /\ op = "replace"
    /\ pc = "returned"
    /\ regex.rightToLeft
    /\ api.count >= 2
    /\ Len(found) > api.count
    /\ api.out # input

RECURSIVE Interleave(_, _)

\* substrings and the values of the cuts, one after the other
Interleave(substrings, cuts) ==
    IF cuts = <<>> THEN substrings[1]
    ELSE substrings[1] \o cuts[1].value \o Interleave(Tail(substrings), Tail(cuts))

\* the matches a finished split had to cut at
SplitCuts == IF api.count = 0 THEN found ELSE FirstMatches(api.count - 1)

\* C12: a finished split has cut at the first count-1 matches of the search
\* order (at all of them for count 0): for count > 0 it returns exactly
\* min(count, n+1) substrings, and the substrings, interleaved in textual
\* order with the values of the cuts, give the input back.
C12_SplitCutsAtFirstMatches ==
    (op = "split" /\ pc = "returned") =>
        /\ api.matches = SortBySpan(SplitCuts)
        /\ Len(api.out) = Len(SplitCuts) + 1
        /\ api.count > 0 => Len(api.out) = Min(api.count, Len(found) + 1)
        /\ Interleave(api.out, SortBySpan(SplitCuts)) = input

\* A right-to-left split that left some matches out has returned.
C12_Witness ==
    /\ op = "split"
    /\ pc = "returned"
    /\ regex.rightToLeft
    /\ api.count >= 2
    /\ Len(found) >= api.count
    /\ Len(api.out) = api.count

\* a failed Match as the claim describes it
IsFailedMatch(m) == ~m.success /\ m.index = 0 /\ m.length = 0 /\ m.value = <<>>

\* the listed error outcomes, without the clause that nothing else is raised
ListedErrorOutcomes ==
    /\ CountRejected => (pc \in {"called", "raised"} /\ st = Idle /\ found = <<>>)
    /\ (op \in {"replace", "split"} /\ pc = "raised") => CountRejected
    /\ (op = "match" /\ pc = "raised") => ~Held.success
    /\ (op = "match" /\ pc = "returned") => Held.success
    /\ (op = "match" /\ pc = "done" /\ hist.event = "end") => IsFailedMatch(Held)
    /\ (op = "match" /\ api.k = 2) => (~Held.success /\ IsFailedMatch(api.matches[1]))

\* C13: the runtime errors are exactly these: replace with count < -1 and
\* split with count < 0 raise before any matching; result() on a failed
\* Match raises; a search without a match returns a failed Match (success
\* false, index 0, length 0, value ""); nextMatch() on a failed Match
\* returns a failed Match; no call ends in any other error.
C13_ErrorOutcomes ==
    /\ ListedErrorOutcomes
    /\ pc # "threw"


-----------------------------------------------------------------------------
(* Claims on the replacement template. *)

\* result() has evaluated this template on a successful Match
Evaluated(template) ==
    op = "match" /\ pc = "returned" /\ api.replacement.text = template

\* the group numbers among the keys, and the named keys in pattern order
KeyNumbers == {NumberOfKey(k) : k \in {x \in regex.groups \cup {"0"} : IsNumbered(x)}}

NamedKeys == FilterKeys(GroupKeys(regex), FALSE)

\* the walk index at which the last named key is emitted: the n-th natural
\* number that is no group number
SlotOfLastNamed ==
    CHOOSE j \in 0..(MaxGroupNumber + Len(NamedKeys)) :
        /\ j \notin KeyNumbers
        /\ Cardinality({i \in 0..j : i \notin KeyNumbers}) = Len(NamedKeys)

LargestNumber == CHOOSE n \in KeyNumbers : \A k \in KeyNumbers : k <= n

\* the key that ends the collapsed order: the largest number when it lies
\* beyond the slots the named keys fill, else the last named key
LastKey ==
    IF NamedKeys = <<>> \/ LargestNumber > SlotOfLastNamed
    THEN Join(NumberToString(LargestNumber))
    ELSE NamedKeys[Len(NamedKeys)]

\* the (?<A>a)(?<2>b)(?<B>c) of the claim, on "abc"
LastGroupExample ==
    (Evaluated(<<"$", "+">>) /\ regex.text = "(?<A>a)(?<2>b)(?<B>c)"
        /\ input = <<"a", "b", "c">>) => api.out = <<"c">>

\* C14 as amended: $+ yields the value of the group that ends the collapsed
\* order, "" when that group has no capture, and the whole match when the
\* pattern has no group; (?<A>a)(?<2>b)(?<B>c) on "abc" yields "c".
C14_LastGroupEndsCollapsedOrder ==
    /\ Evaluated(<<"$", "+">>) => api.out = GroupValue(Held, LastKey)
    /\ LastGroupExample

\* the value of the last group with a capture, in the collapsed order
LastSuccessfulValue ==
    LET list == CollapsedGroupList(GroupKeys(regex))
        good == {i \in 1..Len(list) : list[i] # "0" /\ Len(Held.groups[list[i]]) > 0}
    IN IF good = {} THEN Held.value
       ELSE GroupValue(Held, list[CHOOSE i \in good : \A j \in good : j <= i])

\* C14: $+ yields the value of the last successful group of the collapsed
\* order, and the whole match when no group succeeded; for
\* (?<A>a)(?<2>b)(?<B>c) on "abc" it yields "c".
C14_LastSuccessfulGroup ==
    /\ Evaluated(<<"$", "+">>) => api.out = LastSuccessfulValue
    /\ LastGroupExample

\* $+ has been evaluated where a named key ends the collapsed order after an
\* explicitly numbered group, and where the last group has no capture.
C14_Witness ==
    /\ Evaluated(<<"$", "+">>)
    /\ \/ regex.text = "(?<A>a)(?<2>b)(?<B>c)" /\ api.out = <<"c">>
       \/ regex.text = "(a)(b)?" /\ input = <<"a">> /\ api.out = <<>>

\* the digit runs of the templates
DigitRuns == { <<"1">>, <<"1", "0">>, <<"2", "0">>, <<"0", "1">>, <<"0">>, <<"1", "1">> }

\* C15 as amended: for $ followed by a run of digits, the whole run is the
\* group name: it is substituted by that group's value when such a group
\* exists, and else the whole text is emitted literally (with groups 0, 1, 2
\* and 20, "$10" yields "$10" and "$20" the value of group 20).
C15_WholeDigitRunNamesGroup ==
    \A digits \in DigitRuns :
        Evaluated(<<"$">> \o digits) =>
            api.out = IF GroupsHas(Held, Join(digits))
                      THEN GroupValue(Held, Join(digits))
                      ELSE <<"$">> \o digits

\* the length of the longest prefix of digits that names a group, 0 if none
LongestNamingPrefix(digits) ==
    LET naming == {k \in 1..Len(digits) : GroupsHas(Held, Join(SubSeq(digits, 1, k)))}
    IN IF naming = {} THEN 0 ELSE CHOOSE k \in naming : \A j \in naming : j <= k

\* C15: for $ followed by a run of digits, the longest prefix of the run
\* that names a group is substituted by the group's value and the rest of
\* the digits are emitted literally; the whole text is literal when no
\* prefix names a group.
C15_LongestPrefixNamesGroup ==
    \A digits \in DigitRuns :
        Evaluated(<<"$">> \o digits) =>
            LET k == LongestNamingPrefix(digits)
            IN api.out = IF k = 0 THEN <<"$">> \o digits
                         ELSE GroupValue(Held, Join(SubSeq(digits, 1, k)))
                                  \o SubSeq(digits, k + 1, Len(digits))

\* "$10" and "$20" have been evaluated with the groups 0, 1, 2 and 20.
C15_Witness ==
    /\ regex.groups = {"1", "2", "20"}
    /\ \/ Evaluated(<<"$", "1", "0">>) /\ api.out = <<"$", "1", "0">>
       \/ Evaluated(<<"$", "2", "0">>) /\ api.out = <<"c">>


-----------------------------------------------------------------------------
(* Regex.escape and Regex.unescape: chains of String.prototype.replace     *)
(* with global patterns, each pass over the result of the pass before.     *)
(* A character outside the printable ones is written U+ and its code.      *)

\* String.fromCharCode, for the codes the model's strings can spell
FromCharCode(n) ==
    CASE n = 9 -> "\t"
      [] n = 10 -> "\n"
      [] n = 12 -> "\f"
      [] n = 13 -> "\r"
      [] n = 46 -> "."
      [] n = 49 -> "1"
      [] n = 67 -> "C"
      [] n = 73 -> "I"
      [] n = 84 -> "T"
      [] n = 92 -> "\\"
      [] n = 99 -> "c"
      [] n = 116 -> "t"
      [] OTHER -> "U+" \o Join(NumberToString(n))

\* String.prototype.charCodeAt of one character, -1 where the model has none
CharCodeAt(c) ==
    IF \E n \in 0..127 : FromCharCode(n) = c
    THEN CHOOSE n \in 0..127 : FromCharCode(n) = c
    ELSE -1

RECURSIVE ReplaceAll(_, _, _)

\* str.replace(/pattern/g, replacement) for a pattern that is literal text
ReplaceAll(str, pattern, replacement) ==
    IF Len(str) < Len(pattern) THEN str
    ELSE IF SubSeq(str, 1, Len(pattern)) = pattern
         THEN replacement \o ReplaceAll(SubSeq(str, Len(pattern) + 1, Len(str)),
                                        pattern, replacement)
         ELSE <<str[1]>> \o ReplaceAll(Tail(str), pattern, replacement)

\* the class [ #$()*+.?\[\]^{|] of escape
EscapedChars == {" ", "#", "$", "(", ")", "*", "+", ".", "?", "[", "]", "^", "{", "|"}

\* Regex.escape
Escape(str) ==
    LET escaped == ReplaceAll(ReplaceAll(ReplaceAll(ReplaceAll(str,
                       <<"\t">>, <<"\\", "t">>), <<"\n">>, <<"\\", "n">>),
                       <<"\f">>, <<"\\", "f">>), <<"\r">>, <<"\\", "r">>)
        F[i \in 0..Len(escaped)] ==
            IF i = 0 THEN <<>>
            ELSE IF escaped[i] \in EscapedChars
                 THEN F[i - 1] \o <<"\\", escaped[i]>>
                 ELSE Append(F[i - 1], escaped[i])
    IN F[Len(escaped)]

OctalDigits == {"0", "1", "2", "3", "4", "5", "6", "7"}

\* the letters of the model's strings, for [A-Za-z], and [@-_a-z]
EscapeLetters == {"t", "c", "I"}

ControlChars == EscapeLetters \cup {"\\", "]"}

HexDigits == DigitChars \cup {"c"}

RECURSIVE ParseInt(_, _)

\* parseInt(n, radix) of the digits 0..9 and c
ParseInt(digits, radix) ==
    IF digits = <<>> THEN 0
    ELSE ParseInt(SubSeq(digits, 1, Len(digits) - 1), radix) * radix
             + (IF digits[Len(digits)] = "c" THEN 12
                ELSE CHOOSE d \in 0..9 : Digit(d) = digits[Len(digits)])

RECURSIVE ReplaceOctal(_)

\* replace(/\\([0-7]{1,3})/g, (m, n) => String.fromCharCode(parseInt(n, 8) % 0x100))
ReplaceOctal(str) ==
    IF str = <<>> THEN <<>>
    ELSE IF str[1] = "\\" /\ Len(str) >= 2 /\ str[2] \in OctalDigits
         THEN LET end == Min(RunEnd(str, 1, OctalDigits), 4)
              IN <<FromCharCode(ParseInt(SubSeq(str, 2, end), 8) % 256)>>
                     \o ReplaceOctal(SubSeq(str, end + 1, Len(str)))
         ELSE <<str[1]>> \o ReplaceOctal(Tail(str))

\* the result of a pass: the text, or the SyntaxError its callback threw
Done(text) == [ok |-> TRUE, text |-> text]

Threw == [ok |-> FALSE, text |-> <<>>]

Then(first, rest) == IF rest.ok THEN Done(first \o rest.text) ELSE Threw

RECURSIVE ReplaceControl(_)

\* replace(/\\c([@-_a-z]?)/g, ...): throws when no control letter follows
ReplaceControl(str) ==
    IF str = <<>> THEN Done(<<>>)
    ELSE IF Len(str) >= 2 /\ str[1] = "\\" /\ str[2] = "c"
         THEN IF Len(str) >= 3 /\ str[3] \in ControlChars
              THEN Then(<<FromCharCode(CharCodeAt(UpperOf(str[3])) - 64)>>,
                        ReplaceControl(SubSeq(str, 4, Len(str))))
              ELSE Threw
         ELSE Then(<<str[1]>>, ReplaceControl(Tail(str)))

RECURSIVE ReplaceHex(_, _, _)

\* replace(/\\x((?:[0-9A-Fa-f]{2})?)/g, ...) and the same with u and 4:
\* throws when the digits are missing
ReplaceHex(str, letter, count) ==
    IF str = <<>> THEN Done(<<>>)
    ELSE IF Len(str) >= 2 /\ str[1] = "\\" /\ str[2] = letter
         THEN IF Len(str) >= 2 + count
                    /\ \A k \in 3..(2 + count) : str[k] \in HexDigits
              THEN Then(<<FromCharCode(ParseInt(SubSeq(str, 3, 2 + count), 16))>>,
                        ReplaceHex(SubSeq(str, 3 + count, Len(str)), letter, count))
              ELSE Threw
         ELSE Then(<<str[1]>>, ReplaceHex(Tail(str), letter, count))

\* replace(/\\[89A-Za-z]/g, ...): any match throws
InvalidEscape(str) ==
    \E i \in 1..(Len(str) - 1) :
        str[i] = "\\" /\ str[i + 1] \in EscapeLetters \cup {"8", "9"}

RECURSIVE ReplaceAny(_)

\* replace(/\\([^]?)/g, "$1")
ReplaceAny(str) ==
    IF str = <<>> THEN <<>>
    ELSE IF str[1] = "\\"
         THEN IF Len(str) >= 2 THEN <<str[2]>> \o ReplaceAny(SubSeq(str, 3, Len(str)))
              ELSE <<>>
         ELSE <<str[1]>> \o ReplaceAny(Tail(str))

\* Regex.unescape
Unescape(str) ==
    LET simple ==
            ReplaceAll(ReplaceAll(ReplaceAll(ReplaceAll(ReplaceAll(ReplaceAll(
            ReplaceAll(ReplaceAll(ReplaceAll(str,
                <<"\\", "t">>, <<"\t">>), <<"\\", "n">>, <<"\n">>),
                <<"\\", "f">>, <<"\f">>), <<"\\", "r">>, <<"\r">>),
                <<"\\", "a">>, <<FromCharCode(7)>>), <<"\\", "b">>, <<FromCharCode(8)>>),
                <<"\\", "e">>, <<FromCharCode(27)>>), <<"\\", "f">>, <<"\f">>),
                <<"\\", "v">>, <<FromCharCode(11)>>)
        control == ReplaceControl(ReplaceOctal(simple))
        hex == IF control.ok THEN ReplaceHex(control.text, "x", 2) ELSE Threw
        unicode == IF hex.ok THEN ReplaceHex(hex.text, "u", 4) ELSE Threw
    IN IF ~unicode.ok \/ InvalidEscape(unicode.text) THEN Threw
       ELSE Done(ReplaceAny(unicode.text))

\* the characters of the strings that are escaped and unescaped
EscapeChars == {"\\", "t", "\t", ".", "c", "1"}

EscapeInputs == UNION {[1..k -> EscapeChars] : k \in 0..MaxLen}

\* a client calls escape(s), then unescape on the result, then escape again
EscapeInit ==
    /\ op = "escape"
    /\ pc = "called"
    /\ input \in EscapeInputs
    /\ api = [escaped |-> <<>>, unescaped |-> Done(<<>>), again |-> <<>>]
    /\ regex = Idle
    /\ st = Idle
    /\ found = <<>>
    /\ hist = Idle
    /\ toks = <<>>
    /\ last = Idle
    /\ scanner = Idle
    /\ ptext = <<>>
    /\ parser = Idle

CallEscape ==
    /\ pc = "called"
    /\ api' = [api EXCEPT !.escaped = Escape(input)]
    /\ pc' = "escaped"
    /\ UNCHANGED <<regex, input, op, st, found, hist, toks, last, scanner, ptext, parser>>

CallUnescape ==
    /\ pc = "escaped"
    /\ api' = [api EXCEPT !.unescaped = Unescape(api.escaped)]
    /\ pc' = IF Unescape(api.escaped).ok THEN "unescaped" ELSE "raised"
    /\ UNCHANGED <<regex, input, op, st, found, hist, toks, last, scanner, ptext, parser>>

CallEscapeAgain ==
    /\ pc = "unescaped"
    /\ api' = [api EXCEPT !.again = Escape(api.unescaped.text)]
    /\ pc' = "returned"
    /\ UNCHANGED <<regex, input, op, st, found, hist, toks, last, scanner, ptext, parser>>

EscapeNext == CallEscape \/ CallUnescape \/ CallEscapeAgain

EscapeSpec == EscapeInit /\ [][EscapeNext]_vars

\* C16: for every string s, unescape(escape(s)) equals s.
C16_UnescapeInvertsEscape ==
    /\ pc # "raised"
    /\ pc \in {"unescaped", "returned"} => api.unescaped.text = input

\* C17: for every ASCII string s, unescape(escape(s)) raises no error and
\* escape(unescape(escape(s))) equals escape(s).
C17_EscapeOfUnescapeOfEscape ==
    /\ pc # "raised"
    /\ pc = "returned" => api.again = api.escaped

-----------------------------------------------------------------------------
(* Two runs of matches(): a left-to-right Regex on an input, then a        *)
(* right-to-left Regex on the reversed input.  The second Regex is built   *)
(* from the same pattern, or from its mirror image.                        *)

\* An anchor looking the other way: a lookahead becomes a lookbehind and a
\* start anchor an end anchor.
MirrorCondition(condition) ==
    CASE condition = "notLeft" -> "notRight"
      [] condition = "notRight" -> "notLeft"
      [] condition = "lookahead" -> "lookbehind"
      [] condition = "lookbehind" -> "lookahead"
      [] OTHER -> condition

RECURSIVE FlipExpr(_)

FlipExpr(e) ==
    CASE e.kind = "Sequence" ->
            [e EXCEPT !.atoms = [i \in 1..Len(e.atoms) |-> FlipExpr(e.atoms[i])]]
      [] e.kind = "Alternation" ->
            [e EXCEPT !.left = FlipExpr(e.left), !.right = FlipExpr(e.right)]
      [] e.kind \in {"Repetition", "Group", "BalancingGroup"} ->
            [e EXCEPT !.atom = FlipExpr(e.atom)]
      [] e.kind \in {"Atomic", "Proxy"} ->
            [e EXCEPT !.expression = FlipExpr(e.expression)]
      [] e.kind = "Conditional" ->
            [e EXCEPT !.left = FlipExpr(e.left), !.right = FlipExpr(e.right),
                      !.condAnchor = FlipExpr(e.condAnchor)]
      [] e.kind = "Anchor" ->
            [e EXCEPT !.left = FlipExpr(e.right), !.right = FlipExpr(e.left),
                      !.condition = MirrorCondition(e.condition)]
      [] OTHER -> e

RECURSIVE MirrorExpr(_)

\* The mirror image of a pattern: every sequence in reverse order, every
\* anchor looking the other way.
MirrorExpr(e) ==
    CASE e.kind = "Sequence" ->
            [e EXCEPT !.atoms = [i \in 1..Len(e.atoms) |-> MirrorExpr(Reverse(e.atoms)[i])]]
      [] e.kind = "Alternation" ->
            [e EXCEPT !.left = MirrorExpr(e.left), !.right = MirrorExpr(e.right)]
      [] e.kind \in {"Repetition", "Group", "BalancingGroup"} ->
            [e EXCEPT !.atom = MirrorExpr(e.atom)]
      [] e.kind = "Atomic" -> [e EXCEPT !.expression = MirrorExpr(e.expression)]
      [] e.kind = "Conditional" ->
            [e EXCEPT !.left = MirrorExpr(e.left),
                      !.right = MirrorExpr(e.right),
                      !.condAnchor =
                          IF e.isImplicitLookahead
                          THEN [@ EXCEPT !.left = MirrorExpr(@), !.right = MirrorExpr(@)]
                          ELSE FlipExpr(@)]
      [] e.kind = "Anchor" -> FlipExpr(e)
      [] OTHER -> e

MirrorPattern(p) == [p EXCEPT !.ast = MirrorExpr(p.ast)]

Spans(q) == {<<q[i].index, q[i].length>> : i \in 1..Len(q)}

MirrorInit ==
    /\ \E id \in PatternIds : regex = NewRegex(Patterns[id], FALSE)
    /\ input \in Inputs
    /\ op = "matches"
    /\ st = CreateState(regex, input, FALSE, 0)
    /\ pc = "search"
    /\ found = <<>>
    /\ hist = [event |-> "start", startIndex |-> st.currentIndex,
               cursor |-> st.currentIndex, origin |-> st.currentIndex]
    /\ toks = <<>>
    /\ last = Idle
    /\ scanner = Idle
    /\ ptext = <<>>
    /\ parser = Idle
    /\ \E mirrored \in BOOLEAN :
          api = [run |-> 1, mirrored |-> mirrored, pattern |-> regex,
                 outcome |-> "", spans |-> {}]

\* The first matches() has returned (or thrown, or hangs): the second
\* Regex is constructed and its matches() called on the reversed input.
MirrorRun ==
    /\ api.run = 1
    /\ pc \in {"done", "hung", "threw"}
    /\ LET p == [text |-> regex.text, ast |-> regex.ast, names |-> regex.names,
                 groups |-> regex.groups]
           r == NewRegex(IF api.mirrored THEN MirrorPattern(p) ELSE p, TRUE)
           str == Reverse(input)
           s == CreateState(r, str, FALSE, 0)
       IN /\ regex' = r
          /\ input' = str
          /\ st' = s
          /\ hist' = [event |-> "start", startIndex |-> s.currentIndex,
                      cursor |-> s.currentIndex, origin |-> s.currentIndex]
    /\ api' = [api EXCEPT !.run = 2, !.outcome = pc, !.spans = Spans(found)]
    /\ pc' = "search"
    /\ found' = <<>>
    /\ UNCHANGED <<op, toks, last, scanner, ptext, parser>>

MirrorNext ==
    \/ GetMatchFound
    \/ GetMatchFailed
    \/ GetMatchOutOfBounds
    \/ GetMatchHangs
    \/ GetMatchThrows
    \/ MirrorRun

MirrorSpec == MirrorInit /\ [][MirrorNext]_vars

\* (i, n) on the input corresponds to (|s| - i - n, n) on the reversed input
Mirrored(spans) == {<<Len(input) - sp[1] - sp[2], sp[2]>> : sp \in spans}

SecondRunEnded == api.run = 2 /\ pc \in {"done", "hung", "threw"}

-----------------------------------------------------------------------------
(* match(input, start, length), and then match on the substring that the   *)
(* window holds, with the same Regex.                                      *)

Dot == Character(DotClass, FALSE)

\* the pattern of the test "substring" of match()
WindowPatterns ==
    Patterns \o
    << Pattern("(?<=(.*)).(?=(.*))",
               Sequence(<<Lookbehind(Seq1(Group(Seq1(Star(Dot)), "1")), FALSE),
                          Dot,
                          Lookahead(Seq1(Group(Seq1(Star(Dot)), "2")), FALSE)>>),
               <<"1", "2">>) >>

WindowInit ==
    /\ \E id \in 1..Len(WindowPatterns), rightToLeft \in BOOLEAN :
          regex = NewRegex(WindowPatterns[id], rightToLeft)
    /\ input \in Inputs
    /\ op = "match"
    /\ \E start \in 0..Len(input) : \E length \in 0..(Len(input) - start) :
          /\ st = CreateStateWindow(regex, input, start, length)
          /\ api = [run |-> 1, str |-> input, start |-> start, length |-> length,
                    outcome |-> "", found |-> <<>>]
    /\ pc = "search"
    /\ found = <<>>
    /\ hist = [event |-> "start", startIndex |-> st.currentIndex,
               cursor |-> st.currentIndex, origin |-> st.currentIndex]
    /\ toks = <<>>
    /\ last = Idle
    /\ scanner = Idle
    /\ ptext = <<>>
    /\ parser = Idle

\* match(str.substring(start, start + length)) with the same Regex
MatchSubstring ==
    /\ api.run = 1
    /\ pc \in {"done", "hung", "threw"}
    /\ LET str == Substring(input, api.start, api.start + api.length)
           s == CreateState(regex, str, FALSE, 0)
       IN /\ input' = str
          /\ st' = s
          /\ hist' = [event |-> "start", startIndex |-> s.currentIndex,
                      cursor |-> s.currentIndex, origin |-> s.currentIndex]
    /\ api' = [api EXCEPT !.run = 2, !.outcome = pc, !.found = found]
    /\ pc' = "search"
    /\ found' = <<>>
    /\ UNCHANGED <<regex, op, toks, last, scanner, ptext, parser>>

WindowNext ==
    \/ GetMatchFound
    \/ GetMatchFailed
    \/ GetMatchOutOfBounds
    \/ GetMatchHangs
    \/ GetMatchThrows
    \/ MatchSubstring

WindowSpec == WindowInit /\ [][WindowNext]_vars

InWindow(c) ==
    /\ api.start <= c.index
    /\ c.length >= 0
    /\ c.index + c.length <= api.start + api.length

ShiftCapture(c, by) == [c EXCEPT !.index = @ + by]

\* a Match of the substring, at the indices of the input
ShiftMatch(m, by) ==
    [m EXCEPT !.index = @ + by,
              !.nextIndex = @ + by,
              !.groups = [g \in DOMAIN m.groups |->
                             [k \in 1..Len(m.groups[g]) |-> ShiftCapture(m.groups[g][k], by)]]]

\* C19: match(input, start, length) starts at start (left-to-right) or at
\* start + length (right-to-left); the match it returns and every capture
\* lie inside the window; and it ends as match on the substring of the window
\* ends, with the same match and captures at indices shifted by start: the
\* edges of the window act as the edges of a string.
C19_WindowConfinesMatch ==
    /\ api.run = 1 =>
          /\ hist.origin = IF regex.rightToLeft THEN api.start + api.length ELSE api.start
          /\ \A i \in 1..Len(found) :
                /\ InWindow(found[i])
                /\ \A c \in CapturesOf(found[i]) : InWindow(c)
    /\ (api.run = 2 /\ pc \in {"done", "hung", "threw"}) =>
          /\ pc = api.outcome
          /\ Len(found) = Len(api.found)
          /\ \A i \in 1..Len(found) : ShiftMatch(found[i], api.start) = api.found[i]

\* A window strictly inside the input, with characters to both sides of it,
\* and a match that holds a non-empty capture made by a lookaround: it
\* reaches beyond the span of the match.
C19_Witness ==
    /\ api.run = 2
    /\ pc = "done"
    /\ api.start > 0
    /\ api.start + api.length < Len(api.str)
    /\ Len(api.found) = 1
    /\ \E c \in CapturesOf(api.found[1]) :
          /\ c.length > 0
          /\ c.index + c.length > api.found[1].index + api.found[1].length

-----------------------------------------------------------------------------
(* Two calls in flight on one Regex.  The variables input, op, pc, st,     *)
(* found and hist are those of the call that runs; api.other holds those   *)
(* of the call that waits.  Control passes from one to the other wherever  *)
(* the program can re-enter the Regex: a match() or matches() called from  *)
(* a replacement callback, from code that holds a Match and goes on with   *)
(* nextMatch(), or between the turns of two walks.                         *)

InterleavePatternIds == {1, 3, 9, 14, 17, 24}

InterleaveInputs ==
    { <<"a", "b">>, <<"b", "a", "b">>, <<"a", "a", "b", "c", "a">> }

Called(str, o) ==
    [input |-> str, op |-> o, pc |-> "called", st |-> Idle, found |-> <<>>, hist |-> Idle]

InterleaveInit ==
    /\ \E id \in InterleavePatternIds, rightToLeft \in BOOLEAN :
          /\ regex = NewRegex(Patterns[id], rightToLeft)
          /\ \E str \in InterleaveInputs, o \in {"match", "matches"} :
                api = [self |-> 1, id |-> id, rightToLeft |-> rightToLeft,
                       other |-> Called(str, o)]
    /\ input \in InterleaveInputs
    /\ op \in {"match", "matches"}
    /\ pc = "called"
    /\ st = Idle
    /\ found = <<>>
    /\ hist = Idle
    /\ toks = <<>>
    /\ last = Idle
    /\ scanner = Idle
    /\ ptext = <<>>
    /\ parser = Idle

\* match(input) or matches(input) is entered: createState
CallEnters ==
    /\ pc = "called"
    /\ st' = CreateState(regex, input, FALSE, 0)
    /\ pc' = "search"
    /\ hist' = [event |-> "start", startIndex |-> st'.currentIndex,
                cursor |-> st'.currentIndex, origin |-> st'.currentIndex]
    /\ UNCHANGED <<regex, input, op, found, toks, last, scanner, ptext, parser, api>>

\* Match.nextMatch() on the successful Match that match() returned
NextMatchEnters ==
    /\ pc = "done"
    /\ op = "match"
    /\ Held.success
    /\ st' = CreateState(regex, input, TRUE, Held.nextIndex)
    /\ pc' = "search"
    /\ hist' = [event |-> "start", startIndex |-> st'.currentIndex,
                cursor |-> st'.currentIndex, origin |-> st'.currentIndex]
    /\ UNCHANGED <<regex, input, op, found, toks, last, scanner, ptext, parser, api>>

\* Control passes to the other call.
Switch ==
    /\ api' = [api EXCEPT !.self = 3 - @,
                          !.other = [input |-> input, op |-> op, pc |-> pc, st |-> st,
                                     found |-> found, hist |-> hist]]
    /\ input' = api.other.input
    /\ op' = api.other.op
    /\ pc' = api.other.pc
    /\ st' = api.other.st
    /\ found' = api.other.found
    /\ hist' = api.other.hist
    /\ UNCHANGED <<regex, toks, last, scanner, ptext, parser>>

InterleaveNext ==
    \/ CallEnters
    \/ NextMatchEnters
    \/ Switch
    \/ GetMatchFound
    \/ GetMatchFailed
    \/ GetMatchOutOfBounds
    \/ GetMatchHangs
    \/ GetMatchThrows

InterleaveSpec == InterleaveInit /\ [][InterleaveNext]_vars


\* createState, said without the code's locals
FreshState(r, str, hasStart, start) ==
    NewState(str, r.groups,
             IF hasStart THEN start ELSE IF r.rightToLeft THEN Len(str) ELSE 0,
             r.direction)

RECURSIVE Alone(_, _, _, _)

\* The call run by itself to its end, one turn of getMatch after the other:
\* matches() to the end of its walk, match() followed by nextMatch() for as
\* long as it succeeds.  The result is how the call ends and what it found.
Alone(r, o, s, acc) ==
    IF OutOfBounds(s) THEN [pc |-> "done", found |-> acc]
    ELSE LET x == RootMatch(r, s)
         IN IF x.st.thrown \/ (x.ok /\ ~Halted(x.st) /\ CopyThrows(x.st))
            THEN [pc |-> "threw", found |-> acc]
            ELSE IF x.st.steps >= MaxSteps
            THEN [pc |-> "hung", found |-> acc]
            ELSE IF ~x.ok
            THEN Alone(r, o, [Advance(x.st, 1) EXCEPT !.steps = 0], acc)
            ELSE LET m == NewMatch(x.st, s.currentIndex)
                     s1 == [FinishMatch(x.st) EXCEPT !.steps = 0]
                 IN IF o = "matches"
                    THEN Alone(r, o, AdvanceAfterEmpty(s1, m), Append(acc, m))
                    ELSE Alone(r, o, FreshState(r, s.str, TRUE, m.nextIndex), Append(acc, m))

IsPrefix(q, whole) == Len(q) <= Len(whole) /\ SubSeq(whole, 1, Len(q)) = q

\* A call in flight agrees with the same call run alone on the Regex as it
\* was constructed: what it has found is the beginning of what the call
\* alone finds, and once it has ended, by running out of input, hanging or
\* throwing, it has ended the same way with all of it.
AgreesWithAlone(c) ==
    LET constructed == NewRegex(Patterns[api.id], api.rightToLeft)
        alone == Alone(constructed, c.op, FreshState(constructed, c.input, FALSE, 0), <<>>)
    IN /\ IsPrefix(c.found, alone.found)
       /\ c.pc \in {"hung", "threw"} => (c.pc = alone.pc /\ c.found = alone.found)
       /\ (c.pc = "done" /\ c.hist.event = "end") =>
             (alone.pc = "done" /\ c.found = alone.found)

Running == [input |-> input, op |-> op, pc |-> pc, st |-> st, found |-> found, hist |-> hist]

\* C20: match, matches and nextMatch leave the constructed Regex as it is,
\* and two calls on one Regex, interleaved in any way, each find what the
\* call finds when it runs alone.
C20_InterleavedCallsAgree ==
    /\ regex = NewRegex(Patterns[api.id], api.rightToLeft)
    /\ AgreesWithAlone(Running)
    /\ AgreesWithAlone(api.other)

\* The first call has ended with two matches or more while the second, on
\* another input, has found a match and is still in its walk.
C20_Witness ==
    /\ api.self = 1
    /\ pc = "done"
    /\ hist.event = "end"
    /\ Len(found) >= 2
    /\ api.other.pc = "search"
    /\ Len(api.other.found) >= 1
    /\ api.other.input # input

-----------------------------------------------------------------------------
(* The whole Parser (parser.ts), as operators over the Parser's fields.    *)
(* A parse function takes the Parser and returns the Parser it leaves      *)
(* ([p]) or that and the expression it built ([p, e]).  A thrown error is  *)
(* the field error of the Parser ("SyntaxError", or "Error" for the        *)
(* internal error) with the position the message cites; every function     *)
(* passes a Parser with an error on unchanged.  A node whose field a       *)
(* post-parse action sets later carries the number of that action.         *)
(* tokenLength is the length of Scanner.token.                             *)
(* The pattern texts hold no "[", "\c", "\x" or "\u": parseClass and       *)
(* those branches of parseEscape are not entered.                          *)

MinOf(S) == CHOOSE x \in S : \A y \in S : x <= y

\* new Flags(setFlags): one scope, the flags of the options set in it
NewFlags(setFlags) == <<[on |-> {setFlags[i] : i \in 1..Len(setFlags)}, off |-> {}]>>

RECURSIVE HasFlagFrom(_, _, _)

\* Flags.has: the innermost scope that sets or clears the flag decides
HasFlagFrom(stack, flag, i) ==
    IF i = 0 THEN FALSE
    ELSE IF flag \in stack[i].on THEN TRUE
    ELSE IF flag \in stack[i].off THEN FALSE
    ELSE HasFlagFrom(stack, flag, i - 1)

HasFlag(p, flag) == HasFlagFrom(p.flags, flag, Len(p.flags))

\* Flags.set: in the innermost scope, first the set flags, then the cleared
SetFlags(p, setFlags, clearFlags) ==
    LET set == {LowerOf(setFlags[i]) : i \in 1..Len(setFlags)}
        clear == {LowerOf(clearFlags[i]) : i \in 1..Len(clearFlags)}
    IN IF p.error # "" THEN p
       ELSE
       [p EXCEPT !.flags[Len(p.flags)] = [on |-> (@.on \cup set) \ clear,
                                          off |-> (@.off \ set) \cup clear]]

\* Flags.push, Flags.pop
PushFlags(p) == IF p.error # "" THEN p ELSE [p EXCEPT !.flags = Append(@, [on |-> {}, off |-> {}])]

PopFlags(p) == IF p.error # "" THEN p ELSE [p EXCEPT !.flags = SubSeq(@, 1, Len(@) - 1)]

\* new Parser(regex, flags)
NewFullParser(str, flags) ==
    [ str |-> str,
      index |-> 0,
      curGroupIndex |-> 1,
      groups |-> <<>>,
      flags |-> NewFlags(flags),
      postParseActions |-> <<>>,
      tokenLength |-> 0,
      error |-> "",
      position |-> 0 ]

Failed(p) == p.error # ""

\* throw new SyntaxError(... at position ...)
SyntaxError(p, position) ==
    IF Failed(p) THEN p ELSE [p EXCEPT !.error = "SyntaxError", !.position = position]

\* throw new Error(`Internal error NO_CHAR at position ...`)
InternalError(p, position) ==
    IF Failed(p) THEN p ELSE [p EXCEPT !.error = "Error", !.position = position]

\* Scanner.peek(string)
At(p, pattern) == StartsWith(p.str, pattern, p.index)

AtEnd(p) == p.index >= Len(p.str)

\* the character at the scanner's index, "" at the end
Cur(p) == IF AtEnd(p) THEN "" ELSE p.str[p.index + 1]

\* Scanner.consume of a token of n characters
Skip(p, n) == IF Failed(p) THEN p ELSE [p EXCEPT !.index = @ + n, !.tokenLength = n]

\* Scanner.expect(string)
Expect(p, pattern) ==
    IF Failed(p) THEN p
    ELSE IF At(p, pattern) THEN Skip(p, Len(pattern))
    ELSE SyntaxError(p, p.index)

SpaceChars == {" ", "\t", "\r", "\n", "\f"}

EscapableChars == {"[", "\\", "^", "$", ".", "|", "?", "*", "+", "(", ")", "{", "}"} \cup SpaceChars

\* The token of /[*+?]|{(\d+)(,(\d+)?)?}/ at index: its length (0 when the
\* pattern does not match there) and the groups 1 to 3 of the match.
RepetitionToken(str, index) ==
    LET c == IF index < Len(str) THEN str[index + 1] ELSE ""
        minEnd == RunEnd(str, index + 1, DigitChars)
        hasComma == minEnd < Len(str) /\ str[minEnd + 1] = ","
        maxEnd == IF hasComma THEN RunEnd(str, minEnd + 1, DigitChars) ELSE minEnd
        closed == maxEnd < Len(str) /\ str[maxEnd + 1] = "}"
        none == [length |-> 0, token |-> <<>>, min |-> <<>>, comma |-> FALSE, max |-> <<>>]
    IN IF c \in {"*", "+", "?"}
       THEN [none EXCEPT !.length = 1, !.token = <<c>>]
       ELSE IF c = "{" /\ minEnd > index + 1 /\ closed
       THEN [length |-> maxEnd + 1 - index,
             token |-> SubSeq(str, index + 1, maxEnd + 1),
             min |-> SubSeq(str, index + 2, minEnd),
             comma |-> hasComma,
             max |-> IF hasComma THEN SubSeq(str, minEnd + 2, maxEnd) ELSE <<>>]
       ELSE none

RECURSIVE IndexOf(_, _, _)

\* the index of the first c in str at or after index, Len(str) when none
IndexOf(str, c, index) ==
    IF index >= Len(str) \/ str[index + 1] = c THEN index
    ELSE IndexOf(str, c, index + 1)

RECURSIVE ParseComments(_)

\* parseComments: while consume("(?#"): consume(/[^)]*/), expect(")")
ParseComments(p) ==
    IF Failed(p) \/ ~At(p, <<"(", "?", "#">>) THEN p
    ELSE ParseComments(Expect(Skip(p, IndexOf(p.str, ")", p.index + 3) - p.index), <<")">>))

\* The end of the token of /\s+|#.*\n/ at index, index when none: . does
\* not match a line break.
IgnoredEnd(str, index) ==
    LET c == IF index < Len(str) THEN str[index + 1] ELSE ""
        line == IndexOf(str, "\n", index)
    IN IF c \in SpaceChars THEN RunEnd(str, index, SpaceChars)
       ELSE IF c = "#" /\ line < Len(str)
                 /\ \A k \in (index + 1)..line : str[k] # "\r"
       THEN line + 1
       ELSE index

RECURSIVE ParseIgnoredLoop(_)

\* parseIgnoredSyntax, the loop under flag x
ParseIgnoredLoop(p) ==
    IF Failed(p) \/ IgnoredEnd(p.str, p.index) = p.index THEN p
    ELSE ParseIgnoredLoop(ParseComments(Skip(p, IgnoredEnd(p.str, p.index) - p.index)))

\* parseIgnoredSyntax
ParseIgnoredSyntax(p) ==
    LET q == ParseComments(p)
    IN IF ~Failed(q) /\ HasFlag(q, "x") THEN ParseIgnoredLoop(q) ELSE q

Names(groups) == {groups[i] : i \in 1..Len(groups)}

\* Parser.getGroup on the Map of names: a new name is set last
FullGetGroup(p, name) ==
    IF Failed(p) \/ name \in Names(p.groups) THEN p ELSE [p EXCEPT !.groups = Append(@, name)]

\* Parser.parseGroupName: the Parser after it, the name and nameIndex
FullParseGroupName(p) ==
    LET n == ParseGroupName(p.str, p.index)
    IN IF Failed(p) THEN [p |-> p, name |-> <<>>, nameIndex |-> p.index]
       ELSE IF n.ok THEN [p |-> [p EXCEPT !.index = n.end], name |-> n.name, nameIndex |-> p.index]
       ELSE [p |-> SyntaxError(p, p.index), name |-> <<>>, nameIndex |-> p.index]

\* Parser.getGroupPostParse: the action is pushed; field names what the
\* success callback sets in the node, failure the failure callback.
GetGroupPostParse(p, node, field, name, nameIndex, failure, ignoreCase) ==
    IF Failed(p) THEN p
    ELSE [p EXCEPT !.postParseActions =
              Append(@, [node |-> node, field |-> field, name |-> name,
                         nameIndex |-> nameIndex, failure |-> failure,
                         ignoreCase |-> ignoreCase])]

\* the number the next node with a deferred field gets
NextNode(p) == Len(p.postParseActions) + 1

\* Parser.parseLiteralCharacter
ParseLiteralCharacter(p) ==
    IF Failed(p) THEN [p |-> p, e |-> NoExpr]
    ELSE IF AtEnd(p) THEN [p |-> InternalError(p, p.index), e |-> NoExpr]
    ELSE [p |-> Skip(p, 1), e |-> Character(Literal(Cur(p)), HasFlag(p, "i"))]

DigitClass == [set |-> DigitChars, negate |-> FALSE]

SpaceClass == [set |-> SpaceChars \cup {FromCharCode(11), FromCharCode(133)}, negate |-> FALSE]

Negated(class) == [class EXCEPT !.negate = ~@]

\* anchor.stringEndWithNewline, anchor.lineStart, anchor.lineEnd,
\* anchor.nonWordBoundary
StringEndWithNewline ==
    Anchor(NoExpr,
           Alternation(Character(DotClass, FALSE),
                       Sequence(<<Character(Literal("\n"), FALSE), Character(AnyChar, FALSE)>>)),
           "notRight", FALSE)

LineStart == Anchor(Character(DotClass, FALSE), NoExpr, "notLeft", FALSE)

LineEnd == Anchor(NoExpr, Character(DotClass, FALSE), "notRight", FALSE)

NonWordBoundary ==
    Anchor(Character(WordClass, FALSE), Character(WordClass, FALSE), "nonWordBoundary", FALSE)

\* Parser.parseNamedBackReference
ParseNamedBackReference(p) ==
    LET open == Cur(p)
        endDelim == IF open = "<" THEN ">" ELSE "'"
        n == FullParseGroupName(Skip(p, 1))
        q == Expect(n.p, <<endDelim>>)
        node == NextNode(q)
    IN IF open \notin {"<", "'"} THEN [p |-> SyntaxError(p, p.index), e |-> NoExpr]
       ELSE [p |-> GetGroupPostParse(q, node, "reference", n.name, n.nameIndex, "none", FALSE),
             e |-> [kind |-> "Reference", ignoreCase |-> HasFlag(p, "i"), group |-> "",
                    id |-> node]]

\* Parser.parseBackReferenceOrOctalCode, after consume(/[1-9]\d*/): the
\* scanner is behind the number when numIndex is taken
ParseBackReferenceOrOctalCode(p, num) ==
    LET node == NextNode(p)
    IN [p |-> GetGroupPostParse(p, node, "proxy", num, p.index, "octal", HasFlag(p, "i")),
        e |-> [Proxy EXCEPT !.kind = "Proxy"] @@ [id |-> node]]

Simple(p, n, e) == [p |-> Skip(p, n), e |-> e]

\* Parser.parseEscape, after consume("\\")
ParseEscape(p) ==
    LET c == Cur(p)
        octalEnd == Min(RunEnd(p.str, p.index + 1, OctalDigits), p.index + 3)
        numEnd == RunEnd(p.str, p.index, DigitChars)
    IN CASE Failed(p) -> [p |-> p, e |-> NoExpr]
         [] ~Failed(p) /\ c = "d" -> Simple(p, 1, Character(DigitClass, FALSE))
         [] ~Failed(p) /\ c = "D" -> Simple(p, 1, Character(Negated(DigitClass), FALSE))
         [] ~Failed(p) /\ c = "w" -> Simple(p, 1, Character(WordClass, FALSE))
         [] ~Failed(p) /\ c = "W" -> Simple(p, 1, Character(Negated(WordClass), FALSE))
         [] ~Failed(p) /\ c = "s" -> Simple(p, 1, Character(SpaceClass, FALSE))
         [] ~Failed(p) /\ c = "S" -> Simple(p, 1, Character(Negated(SpaceClass), FALSE))
         [] ~Failed(p) /\ c = "t" -> Simple(p, 1, Character(Literal("\t"), FALSE))
         [] ~Failed(p) /\ c = "r" -> Simple(p, 1, Character(Literal("\r"), FALSE))
         [] ~Failed(p) /\ c = "n" -> Simple(p, 1, Character(Literal("\n"), FALSE))
         [] ~Failed(p) /\ c = "a" -> Simple(p, 1, Character(Literal(FromCharCode(7)), FALSE))
         [] ~Failed(p) /\ c = "e" -> Simple(p, 1, Character(Literal(FromCharCode(27)), FALSE))
         [] ~Failed(p) /\ c = "f" -> Simple(p, 1, Character(Literal("\f"), FALSE))
         [] ~Failed(p) /\ c = "v" -> Simple(p, 1, Character(Literal(FromCharCode(11)), FALSE))
         [] ~Failed(p) /\ c = "k" -> ParseNamedBackReference(Skip(p, 1))
         [] ~Failed(p) /\ c = "0" /\ octalEnd > p.index + 1 ->
                Simple(p, octalEnd - p.index,
                       Character(Literal(FromCharCode(
                           ParseInt(SubSeq(p.str, p.index + 1, octalEnd), 8))), FALSE))
         [] ~Failed(p) /\ c = "0" /\ octalEnd = p.index + 1 ->
                Simple(p, 1, Character(Literal(FromCharCode(0)), FALSE))
         [] ~Failed(p) /\ c \in DigitChars \ {"0"} ->
                ParseBackReferenceOrOctalCode(Skip(p, numEnd - p.index),
                                              SubSeq(p.str, p.index + 1, numEnd))
         [] ~Failed(p) /\ c = "A" -> Simple(p, 1, StringStart)
         [] ~Failed(p) /\ c = "Z" -> Simple(p, 1, StringEndWithNewline)
         [] ~Failed(p) /\ c = "z" -> Simple(p, 1, StringEnd)
         [] ~Failed(p) /\ c = "G" -> Simple(p, 1, MatchEnd)
         [] ~Failed(p) /\ c = "b" -> Simple(p, 1, WordBoundary)
         [] ~Failed(p) /\ c = "B" -> Simple(p, 1, NonWordBoundary)
         [] OTHER ->
                IF c \in EscapableChars
                THEN Simple(p, 1, Character(Literal(c), FALSE))
                ELSE [p |-> SyntaxError(p, p.index), e |-> NoExpr]

RECURSIVE ParseRegex(_)
RECURSIVE ParseSequenceFrom(_, _)
RECURSIVE ParseAtom(_)
RECURSIVE ParseConstruct(_)
RECURSIVE ParseNamedConstruct(_, _)
RECURSIVE ParseConditional(_)
RECURSIVE ParseFlagsConstruct(_)
RECURSIVE ParseRegexRest(_)
RECURSIVE ParseSequencePush(_, _)

\* the value of a parse function that returns an expression
Parsed(p, e) == [p |-> p, e |-> IF Failed(p) THEN NoExpr ELSE e]

\* parseRegex after its parseSequence returned s: the alternation when a
\* "|" follows, and flags.pop
ParseRegexRest(s) ==
    LET r == ParseRegex(Skip(s.p, 1))
    IN IF Failed(s.p) THEN Parsed(s.p, NoExpr)
       ELSE IF At(s.p, <<"|">>) THEN Parsed(PopFlags(r.p), Alternation(s.e, r.e))
       ELSE Parsed(PopFlags(s.p), s.e)

\* Parser.parseRegex
ParseRegex(p) == ParseRegexRest(ParseSequenceFrom(PushFlags(p), <<>>))

\* parseSequence after parseAtom returned a: the atom is pushed unless it is
\* undefined, and the loop goes on
ParseSequencePush(a, atoms) ==
    ParseSequenceFrom(a.p, IF a.e.kind = "none" THEN atoms ELSE Append(atoms, a.e))

\* Parser.parseSequence, with the atoms pushed so far
ParseSequenceFrom(p, atoms) ==
    IF Failed(p) THEN Parsed(p, NoExpr)
    ELSE IF AtEnd(p) \/ Cur(p) \in {")", "|"} THEN Parsed(p, Sequence(atoms))
    ELSE ParseSequencePush(ParseAtom(p), atoms)

ParseSequence(p) == ParseSequenceFrom(p, <<>>)

\* a group whose inner regex parseRegex parses and whose ")" is expected
Closed(r, e) == Parsed(Expect(r.p, <<")">>), e)

\* parseAtom, the groups that "(?<" and "(?'" open, after that token
ParseNamedConstruct(p, endDelim) ==
    LET minus == At(p, <<"-">>)
        n == FullParseGroupName(IF minus THEN Skip(p, 1) ELSE p)
        balancing == ~minus /\ ~Failed(n.p) /\ At(n.p, <<"-">>)
        b == FullParseGroupName(Skip(n.p, 1))
        r == ParseRegex(Expect(IF balancing THEN b.p ELSE n.p, <<endDelim>>))
        node == NextNode(r.p)
        deferred == n.name # <<>> /\ n.name[1] = "0"
        named == IF deferred
                 THEN GetGroupPostParse(r.p, node, IF balancing THEN "pushGroup" ELSE "group",
                                        n.name, n.nameIndex, "none", FALSE)
                 ELSE FullGetGroup(r.p, n.name)
    IN IF minus
       THEN Closed([p |-> GetGroupPostParse(r.p, node, "popGroup", n.name, n.nameIndex,
                                            "none", FALSE)],
                   [kind |-> "BalancingGroup", atom |-> r.e, pushGroup |-> "",
                    popGroup |-> "", id |-> node])
       ELSE IF balancing
       THEN Closed([p |-> GetGroupPostParse(named, node, "popGroup", b.name, b.nameIndex,
                                            "none", FALSE)],
                   [kind |-> "BalancingGroup", atom |-> r.e,
                    pushGroup |-> IF deferred THEN "" ELSE Join(n.name),
                    popGroup |-> "", id |-> node])
       ELSE IF deferred
       THEN Closed([p |-> named], [kind |-> "Group", atom |-> r.e, group |-> "", id |-> node])
       ELSE Closed([p |-> named], Group(r.e, Join(n.name)))

\* parseAtom, the conditional group, after the token "(?("
ParseConditional(p) ==
    LET ahead == At(p, <<"?", "=">>) \/ At(p, <<"?", "!">>)
        behind == At(p, <<"?", "<", "=">>) \/ At(p, <<"?", "<", "!">>)
        wordEnd == RunEnd(p.str, p.index, NameChars)
        byName == ~ahead /\ ~behind /\ wordEnd > p.index
                  /\ StartsWith(p.str, <<")">>, wordEnd)
        negate == p.str[p.index + (IF ahead THEN 2 ELSE 3)] = "!"
        r == ParseRegex(IF ahead THEN Skip(p, 2) ELSE IF behind THEN Skip(p, 3) ELSE p)
        n == FullParseGroupName(p)
        c == Expect(IF byName THEN n.p ELSE r.p, <<")">>)
        anchorCondition ==
            IF ahead THEN Anchor(NoExpr, r.e, "lookahead", negate)
            ELSE IF behind THEN Anchor(InvertExpr(r.e), NoExpr, "lookbehind", negate)
            ELSE Anchor(NoExpr, r.e, "implicit", FALSE)
        left == ParseSequence(c)
        bar == ~Failed(left.p) /\ At(left.p, <<"|">>)
        right == IF bar THEN ParseSequence(Skip(left.p, 1)) ELSE Parsed(left.p, Sequence(<<>>))
        node == NextNode(right.p)
    IN IF byName
       THEN Closed([p |-> GetGroupPostParse(right.p, node, "condition", n.name, n.nameIndex,
                                            "implicit", HasFlag(p, "i"))],
                   [kind |-> "Conditional", left |-> left.e, right |-> right.e,
                    condGroup |-> "", condAnchor |-> NoExpr,
                    isImplicitLookahead |-> FALSE, id |-> node])
       ELSE Closed(right,
                   Conditional(left.e, right.e, "", anchorCondition, ~ahead /\ ~behind))

\* Parser.checkFlags: the Parser, with the error of an invalid flag
CheckFlags(p, flags) ==
    LET invalid == {i \in 1..Len(flags) : LowerOf(flags[i]) \notin FlagChars}
    IN IF Failed(p) \/ invalid = {} THEN p
       ELSE SyntaxError(p, p.index - Len(flags) + (MinOf(invalid) - 1))

\* parseAtom, the flags modifier, after the token "(?": e is undefined
\* (NoExpr) for (?flags)
ParseFlagsConstruct(p) ==
    LET setEnd == RunEnd(p.str, p.index, LetterChars)
        setFlags == SubSeq(p.str, p.index + 1, setEnd)
        s == IF setEnd > p.index \/ At(p, <<"-">>)
             THEN CheckFlags(Skip(p, setEnd - p.index), setFlags)
             ELSE SyntaxError(p, p.index)
        minus == ~Failed(s) /\ At(s, <<"-">>)
        clearEnd == RunEnd(p.str, s.index + 1, LetterChars)
        clearFlags == IF minus THEN SubSeq(p.str, s.index + 2, clearEnd) ELSE <<>>
        c == IF minus THEN CheckFlags(Skip(Skip(s, 1), clearEnd - s.index - 1), clearFlags)
             ELSE s
        r == ParseRegex(SetFlags(PushFlags(Skip(c, 1)), setFlags, clearFlags))
    IN IF Failed(c) THEN Parsed(c, NoExpr)
       ELSE IF At(c, <<":">>) THEN Parsed(PopFlags(Expect(r.p, <<")">>)), r.e)
       ELSE Parsed(SetFlags(Expect(c, <<")">>), setFlags, clearFlags), NoExpr)

\* parseAtom, from the first consume to the construct's end
ParseConstruct(p) ==
    LET r3 == ParseRegex(Skip(p, 3))
        r4 == ParseRegex(Skip(p, 4))
        r1 == ParseRegex(Skip(p, 1))
        number == NumberToString(p.curGroupIndex)
        g1 == ParseRegex([FullGetGroup(Skip(p, 1), number) EXCEPT !.curGroupIndex = @ + 1])
    IN CASE Failed(p) -> Parsed(p, NoExpr)
         [] ~Failed(p) /\ At(p, <<"\\">>) -> ParseEscape(Skip(p, 1))
         [] ~Failed(p) /\ At(p, <<"(", "?", ":">>) -> Closed(r3, r3.e)
         [] ~Failed(p) /\ At(p, <<"(", "?", ">">>) -> Closed(r3, Atomic(r3.e))
         [] ~Failed(p) /\ At(p, <<"(", "?", "=">>) -> Closed(r3, Anchor(NoExpr, r3.e, "lookahead", FALSE))
         [] ~Failed(p) /\ At(p, <<"(", "?", "!">>) -> Closed(r3, Anchor(NoExpr, r3.e, "lookahead", TRUE))
         [] ~Failed(p) /\ At(p, <<"(", "?", "<", "=">>) ->
                Closed(r4, Anchor(InvertExpr(r4.e), NoExpr, "lookbehind", FALSE))
         [] ~Failed(p) /\ At(p, <<"(", "?", "<", "!">>) ->
                Closed(r4, Anchor(InvertExpr(r4.e), NoExpr, "lookbehind", TRUE))
         [] ~Failed(p) /\ At(p, <<"(", "?", "<">>)
                /\ ~At(p, <<"(", "?", "<", "=">>) /\ ~At(p, <<"(", "?", "<", "!">>) ->
                ParseNamedConstruct(Skip(p, 3), ">")
         [] ~Failed(p) /\ At(p, <<"(", "?", "'">>) -> ParseNamedConstruct(Skip(p, 3), "'")
         [] ~Failed(p) /\ At(p, <<"(", "?", "(">>) /\ ~At(p, <<"(", "?", "(", "#">>) ->
                ParseConditional(Skip(p, 3))
         [] ~Failed(p) /\ At(p, <<"(", "?">>)
                /\ (At(p, <<"(", "?", "(", "#">>)
                    \/ (p.index + 2 < Len(p.str) =>
                            p.str[p.index + 3] \notin {":", ">", "=", "!", "<", "'", "("})) ->
                ParseFlagsConstruct(Skip(p, 2))
         [] ~Failed(p) /\ At(p, <<"(">>) /\ ~At(p, <<"(", "?">>) ->
                IF HasFlag(p, "n") THEN Closed(r1, r1.e)
                ELSE Closed(g1, Group(g1.e, Join(number)))
         [] ~Failed(p) /\ At(p, <<".">>) ->
                Simple(p, 1, Character(IF HasFlag(p, "s") THEN AnyChar ELSE DotClass, FALSE))
         [] ~Failed(p) /\ At(p, <<"^">>) ->
                Simple(p, 1, IF HasFlag(p, "m") THEN LineStart ELSE StringStart)
         [] ~Failed(p) /\ At(p, <<"$">>) ->
                Simple(p, 1, IF HasFlag(p, "m") THEN LineEnd ELSE StringEndWithNewline)
         [] OTHER -> ParseLiteralCharacter(p)

\* parseAtom, the repetition modifier that follows the construct a.e; an
\* undefined atom is returned before it
ParseModifier(a) ==
    LET q == ParseIgnoredSyntax(a.p)
        t == RepetitionToken(q.str, q.index)
        i == ParseIgnoredSyntax(Skip(q, t.length))
        lazy == ~Failed(i) /\ At(i, <<"?">>)
        l == IF lazy THEN Skip(i, 1) ELSE i
        min == ParseInt(t.min, 10)
        max == ParseInt(t.max, 10)
    IN IF Failed(a.p) \/ a.e.kind = "none" THEN a
       ELSE IF Failed(q) \/ t.length = 0 THEN Parsed(q, a.e)
       ELSE IF t.token = <<"*">> THEN Parsed(l, Repetition(a.e, 0, 0, TRUE, lazy))
       ELSE IF t.token = <<"+">> THEN Parsed(l, Repetition(a.e, 1, 0, TRUE, lazy))
       ELSE IF t.token = <<"?">> THEN Parsed(l, Repetition(a.e, 0, 1, FALSE, lazy))
       ELSE IF ~t.comma THEN Parsed(l, Repetition(a.e, min, min, FALSE, lazy))
       ELSE IF t.max = <<>> THEN Parsed(l, Repetition(a.e, min, 0, TRUE, lazy))
       ELSE IF max < min THEN Parsed(SyntaxError(l, l.index - l.tokenLength), NoExpr)
       ELSE Parsed(l, Repetition(a.e, min, max, FALSE, lazy))

\* Parser.parseAtom: e is undefined (NoExpr) for a flags modifier
ParseAtom(p) ==
    IF Failed(p) THEN Parsed(p, NoExpr)
    ELSE IF RepetitionToken(p.str, p.index).length > 0 \/ At(p, <<")">>)
    THEN Parsed(SyntaxError(p, p.index), NoExpr)
    ELSE ParseModifier(ParseConstruct(ParseIgnoredSyntax(p)))

\* num.match(/^([0-7]{2,3})(.*)/): the length of group 1, 0 when no match
OctalMatch(num) ==
    LET end == Min(RunEnd(num, 0, OctalDigits), 3)
    IN IF end >= 2 THEN end ELSE 0

\* the failure callback of parseBackReferenceOrOctalCode, when it returns
\* true: the Sequence it gives to proxy.setExpression
OctalSequence(a) ==
    LET n == OctalMatch(a.name)
    IN Sequence(<<Character(Literal(FromCharCode(ParseInt(SubSeq(a.name, 1, n), 8) % 256)),
                            a.ignoreCase)>>
                \o [i \in 1..(Len(a.name) - n) |-> Character(Literal(a.name[n + i]), FALSE)])

\* the failure callback of the conditional group, when it returns true: the
\* Anchor it sets as the condition
ImplicitLookahead(a) ==
    Anchor(NoExpr,
           Sequence([i \in 1..Len(a.name) |-> Character(Literal(a.name[i]), a.ignoreCase)]),
           "implicit", FALSE)

\* getGroupPostParse, the pushed action: found says that this.groups has
\* the name without its leading zeros, handled that the failure callback
\* returned true.
PostParseFound(p, a) == StripZeros(a.name) \in Names(p.groups)

PostParseHandled(a) ==
    \/ a.failure = "octal" /\ OctalMatch(a.name) > 0
    \/ a.failure = "implicit" /\ \E i \in 1..Len(a.name) : a.name[i] \notin DigitChars

\* the post-parse actions that throw
Throwing(p) ==
    {i \in 1..Len(p.postParseActions) :
        ~PostParseFound(p, p.postParseActions[i]) /\ ~PostParseHandled(p.postParseActions[i])}

\* this.postParseActions.forEach(f => f()): the first action that throws
\* ends the pass
RunPostParseActions(p) ==
    IF Failed(p) \/ Throwing(p) = {} THEN p
    ELSE SyntaxError(p, p.postParseActions[MinOf(Throwing(p))].nameIndex)

\* the action of node id that sets field; callers test HasAction first
ActionOf(p, id, field) ==
    CHOOSE a \in {p.postParseActions[i] : i \in 1..Len(p.postParseActions)} :
        a.node = id /\ a.field = field

HasAction(p, id, field) ==
    \E i \in 1..Len(p.postParseActions) :
        p.postParseActions[i].node = id /\ p.postParseActions[i].field = field

\* the CaptureGroup the success callback receives
GroupOf(a) == Join(StripZeros(a.name))

RECURSIVE Resolve(_, _)

\* The expression after the post-parse actions have run: every node that
\* waited for an action has the fields its callback set.
Resolve(e, p) ==
    LET deferred == "id" \in DOMAIN e
        a == ActionOf(p, e.id, CASE e.kind = "Group" -> "group"
                                 [] e.kind = "Reference" -> "reference"
                                 [] e.kind = "Proxy" -> "proxy"
                                 [] e.kind = "Conditional" -> "condition"
                                 [] OTHER -> "popGroup")
    IN CASE e.kind = "Sequence" ->
                [e EXCEPT !.atoms = [i \in 1..Len(e.atoms) |-> Resolve(e.atoms[i], p)]]
         [] e.kind = "Alternation" ->
                [e EXCEPT !.left = Resolve(e.left, p), !.right = Resolve(e.right, p)]
         [] e.kind = "Repetition" -> [e EXCEPT !.atom = Resolve(e.atom, p)]
         [] e.kind = "Atomic" -> [e EXCEPT !.expression = Resolve(e.expression, p)]
         [] e.kind = "Anchor" ->
                [e EXCEPT !.left = Resolve(e.left, p), !.right = Resolve(e.right, p)]
         [] e.kind = "Group" ->
                Group(Resolve(e.atom, p), IF deferred THEN GroupOf(a) ELSE e.group)
         [] e.kind = "BalancingGroup" ->
                BalancingGroup(Resolve(e.atom, p),
                               IF HasAction(p, e.id, "pushGroup")
                               THEN GroupOf(ActionOf(p, e.id, "pushGroup"))
                               ELSE e.pushGroup,
                               GroupOf(a))
         [] e.kind = "Reference" ->
                IF deferred THEN Reference(e.ignoreCase, GroupOf(a)) ELSE e
         [] e.kind = "Proxy" ->
                IF ~deferred THEN e
                ELSE SetExpression([kind |-> "Proxy", expression |-> NoExpr,
                                    inverted |-> e.inverted],
                                   IF PostParseFound(p, a)
                                   THEN Reference(a.ignoreCase, GroupOf(a))
                                   ELSE OctalSequence(a))
         [] e.kind = "Conditional" ->
                IF ~deferred
                THEN [e EXCEPT !.left = Resolve(e.left, p), !.right = Resolve(e.right, p),
                               !.condAnchor = Resolve(e.condAnchor, p)]
                ELSE IF PostParseFound(p, a)
                THEN Conditional(Resolve(e.left, p), Resolve(e.right, p), GroupOf(a),
                                 NoExpr, FALSE)
                ELSE Conditional(Resolve(e.left, p), Resolve(e.right, p), "",
                                 ImplicitLookahead(a), TRUE)
         [] OTHER -> e

\* the group table as the Regex keeps it: the names in the order of the Map
GroupNames(p) == [i \in 1..Len(p.groups) |-> Join(p.groups[i])]

\* Parser.parse: the Parser after it (with the error it threw, if any) and
\* the ParseResult
ParseResult(q, e) ==
    [p |-> q,
     result |-> IF Failed(q) THEN Pattern(Join(q.str), NoExpr, <<>>)
                ELSE Pattern(Join(q.str), Resolve(e, q), GroupNames(q))]

\* parse() after parseRegex returned r: the end of the text is expected,
\* then the post-parse actions run
ParseEndOfText(r) ==
    ParseResult(RunPostParseActions(IF Failed(r.p) \/ AtEnd(r.p) THEN r.p
                                    ELSE SyntaxError(r.p, r.p.index)),
                r.e)

Parse(str, flags) == ParseEndOfText(ParseRegex(NewFullParser(str, flags)))

\* new Regex(regex, {flags, rightToLeft}): error is "" when the constructor
\* returns, and regex is then the Regex; position is -1 for the error that
\* cites none; parser is the Parser as parse() left it
Constructed(parsed, rightToLeft) ==
    IF Failed(parsed.p)
    THEN [error |-> parsed.p.error, position |-> parsed.p.position, regex |-> NoExpr,
          parser |-> parsed.p]
    ELSE [error |-> "", position |-> 0, regex |-> NewRegex(parsed.result, rightToLeft),
          parser |-> parsed.p]

Construct(str, flags, rightToLeft) ==
    IF \E i \in 1..Len(flags) : LowerOf(flags[i]) \notin FlagChars
    THEN [error |-> "SyntaxError", position |-> -1, regex |-> NoExpr,
          parser |-> NewFullParser(str, <<>>)]
    ELSE Constructed(Parse(str, flags), rightToLeft)


-----------------------------------------------------------------------------
(* new Regex(pattern, options) on the patterns of five families, and       *)
(* matches() on the Regex that results.  A pattern is a row of pieces:     *)
(*   ignored   atoms, parentheses, bars and modifiers, with at most one    *)
(*             piece of ignored syntax put between two pieces;             *)
(*   scope     a group of every kind that holds an inline flags modifier,  *)
(*             between two literals;                                       *)
(*   reference a reference to a group and a group, in either order;        *)
(*   octal     a number that names no group, also inside a lookbehind;     *)
(*   implicit  a conditional whose condition is an implicit lookahead,     *)
(*             also inside a lookbehind.                                   *)

\* most pieces in a pattern of the family "ignored"
MaxTextPieces == 3

BasicPieces ==
    { <<"a">>,
      <<"b", "*", "?">>,
      <<"*">>,
      <<"{", "2", ",", "1", "}">>,
      <<"(">>,
      <<")">>,
      <<"|">> }

Comment == <<"(", "?", "#", "c", ")">>

Blank == <<" ">>

LineComment == <<"#", "c", "\n">>

\* the ignored syntax and the option flags under which it is ignored
IgnoredKinds ==
    { [text |-> Comment, flags |-> <<>>],
      [text |-> Blank, flags |-> <<"x">>],
      [text |-> LineComment, flags |-> <<"x">>] }

\* pieces with the piece g put after the first k of them
InsertAt(pieces, k, g) == SubSeq(pieces, 1, k) \o <<g>> \o SubSeq(pieces, k + 1, Len(pieces))

GroupOpeners ==
    { <<"(">>,
      <<"(", "?", ":">>,
      <<"(", "?", ">">>,
      <<"(", "?", "=">>,
      <<"(", "?", "!">>,
      <<"(", "?", "<", "=">>,
      <<"(", "?", "<", "!">>,
      <<"(", "?", "<", "A", ">">>,
      <<"(", "?", "s", ":">>,
      <<"(", "?", "(", "b", ")">>,
      <<"(", "?", "(", "b", ")", "b", "|">>,
      <<"(", "?", "(", "?", "=", "b", ")">> }

FlagModifiers == { <<"(", "?", "i", ")">>, <<"(", "?", "-", "i", ")">> }

\* the references of the family "reference": the text and the name it
\* refers to
References ==
    { [text |-> <<"\\", "1">>, name |-> "1"],
      [text |-> <<"\\", "k", "<", "1", ">">>, name |-> "1"],
      [text |-> <<"\\", "k", "<", "A", ">">>, name |-> "A"],
      [text |-> <<"(", "?", "<", "-", "A", ">", "b", ")">>, name |-> "A"],
      [text |-> <<"(", "?", "<", "B", "-", "1", ">", "b", ")">>, name |-> "1"],
      [text |-> <<"(", "?", "(", "1", ")", "a", "|", "b", ")">>, name |-> "1"],
      [text |-> <<"(", "?", "(", "A", ")", "a", "|", "b", ")">>, name |-> "A"],
      [text |-> <<"(", "?", "<", "0", "1", ">", "b", ")">>, name |-> "1"] }

\* the groups of the family "reference"
Definitions ==
    { [text |-> <<"(", "a", ")">>, name |-> "1"],
      [text |-> <<"(", "?", "<", "A", ">", "a", ")">>, name |-> "A"] }

\* \1030 names no group: the octal code 103 (C), then the literal 0
OctalTexts ==
    { <<<<"\\", "1", "0", "3", "0">>>>,
      <<<<"(", "?", "<", "=">>, <<"\\", "1", "0", "3", "0">>, <<")">>>>,
      <<<<"(", "a", ")">>, <<"\\", "1">>>>,
      <<<<"(", "?", "<", "=">>, <<"(", "a", ")">>, <<"\\", "1">>, <<")">>>> }

\* the conditionals of the family "implicit", whose condition names no group:
\* (?(ba)ab|b) is an implicit lookahead only when the post-parse actions
\* run, (?(b-a)ab|b) already when it is parsed
ImplicitConditionals ==
    { <<"(", "?", "(", "b", "a", ")", "a", "b", "|", "b", ")">>,
      <<"(", "?", "(", "b", "-", "a", ")", "a", "b", "|", "b", ")">> }

\* the conditional on its own and inside a lookbehind
ImplicitTexts ==
    {<<c>> : c \in ImplicitConditionals}
    \cup {<<<<"(", "?", "<", "=">>, c, <<")">>>> : c \in ImplicitConditionals}

ConstructInputs == { <<"a", "b">>, <<"b", "a", "a">>, <<"C", "0">> }

\* the call new Regex(...) that the state holds: pieces are the pieces of
\* the pattern without the ignored piece, which stands after the first at
\* of them (at = -1: there is none); ref is the place of the reference in
\* pieces (0: there is none) and name the name it refers to
Call(family, pieces, at, flags, rightToLeft, ref, name) ==
    [family |-> family, pieces |-> pieces, at |-> at, flags |-> flags,
     rightToLeft |-> rightToLeft, ref |-> ref, name |-> name,
     error |-> "", position |-> 0]

\* the calls of the families, the rows of basic pieces up to most pieces long
ConstructCalls(most) ==
    LET rows == UNION {[1..k -> BasicPieces] : k \in 0..most}
    IN {[text |-> Chars(q), call |-> Call("ignored", q, -1, <<>>, FALSE, 0, "")] : q \in rows}
       \cup
       UNION {UNION {{[text |-> Chars(InsertAt(q, k, g.text)),
                       call |-> Call("ignored", q, k, g.flags, FALSE, 0, "")] :
                         k \in 0..Len(q)} : g \in IgnoredKinds} : q \in rows}
       \cup
       UNION {UNION {{LET q == <<<<"a">>, open, modifier, <<"a">>, <<")">>, <<"a">>>>
                      IN [text |-> Chars(q),
                          call |-> Call("scope", q, -1, flags, FALSE, 0, "")] :
                         flags \in {<<>>, <<"i">>, <<"b">>}} :
                     modifier \in FlagModifiers} : open \in GroupOpeners}
       \cup
       UNION {UNION {{[text |-> Chars(<<r.text, d.text>>),
                       call |-> Call("reference", <<r.text, d.text>>, -1, <<>>, rightToLeft,
                                     1, r.name)],
                      [text |-> Chars(<<d.text, r.text>>),
                       call |-> Call("reference", <<d.text, r.text>>, -1, <<>>, rightToLeft,
                                     2, r.name)],
                      [text |-> Chars(<<r.text>>),
                       call |-> Call("reference", <<r.text>>, -1, <<>>, rightToLeft,
                                     1, r.name)]} :
                     rightToLeft \in BOOLEAN} : r \in References, d \in Definitions}
       \cup
       {[text |-> Chars(q), call |-> Call("octal", q, -1, <<>>, rightToLeft, 0, "")] :
           q \in OctalTexts, rightToLeft \in BOOLEAN}
       \cup
       {[text |-> Chars(q), call |-> Call("implicit", q, -1, <<>>, rightToLeft, 0, "")] :
           q \in ImplicitTexts, rightToLeft \in BOOLEAN}

ConstructInit ==
    /\ \E c \in ConstructCalls(MaxTextPieces) : ptext = c.text /\ api = c.call
    /\ op = "new"
    /\ pc = "new"
    /\ regex = Idle
    /\ parser = Idle
    /\ input = <<>>
    /\ st = Idle
    /\ found = <<>>
    /\ hist = Idle
    /\ toks = <<>>
    /\ last = Idle
    /\ scanner = Idle

\* new Regex(ptext, {flags, rightToLeft}) returns the Regex
NewRegexReturns ==
    /\ pc = "new"
    /\ \E c \in {Construct(ptext, api.flags, api.rightToLeft)} :
          /\ c.error = ""
          /\ regex' = c.regex
          /\ parser' = c.parser
    /\ pc' = "constructed"
    /\ UNCHANGED <<input, op, st, found, hist, toks, last, scanner, ptext, api>>

\* new Regex(ptext, {flags, rightToLeft}) throws: no Regex results
NewRegexThrows ==
    /\ pc = "new"
    /\ \E c \in {Construct(ptext, api.flags, api.rightToLeft)} :
          /\ c.error # ""
          /\ api' = [api EXCEPT !.error = c.error, !.position = c.position]
          /\ parser' = c.parser
    /\ pc' = "thrown"
    /\ UNCHANGED <<regex, input, op, st, found, hist, toks, last, scanner, ptext>>

\* how matches(str) on the Regex r ends, and the matches it has pushed
MatchesOf(r, str) == Alone(r, "matches", CreateState(r, str, FALSE, 0), <<>>)

\* regex.matches(input), the whole call
CallMatches ==
    /\ pc = "constructed"
    /\ \E str \in ConstructInputs :
          \E m \in {MatchesOf(regex, str)} :
             /\ input' = str
             /\ found' = m.found
             /\ pc' = m.pc
    /\ op' = "matches"
    /\ UNCHANGED <<regex, st, hist, toks, last, scanner, ptext, parser, api>>

ConstructNext == NewRegexReturns \/ NewRegexThrows \/ CallMatches

ConstructSpec == ConstructInit /\ [][ConstructNext]_vars


ValidOptions == \A i \in 1..Len(api.flags) : api.flags[i] \in FlagChars

\* C21: a pattern that cannot be parsed makes construction fail with a
\* syntax error that carries the position in the pattern, and no Regex
\* results; construction never fails with another kind of error.
C21_UnparsableGivesSyntaxError ==
    pc = "thrown" =>
        /\ api.error = "SyntaxError"
        /\ regex = Idle
        /\ ValidOptions => api.position \in 0..Len(ptext)


Modifiers == { <<"*">>, <<"{", "2", ",", "1", "}">> }

\* In the row of pieces a repetition modifier has no atom before it or
\* follows another repetition, or it is {2,1}.
BadRepetition(pieces) ==
    \E i \in 1..Len(pieces) :
        /\ pieces[i] \in Modifiers
        /\ \/ i = 1
           \/ pieces[i - 1] \notin { <<"a">>, <<")">> }
           \/ pieces[i] = <<"{", "2", ",", "1", "}">>

\* C22: a repetition modifier with no atom before it, or directly after
\* another repetition, is rejected with a syntax error, also when only
\* ignored syntax stands between it and what precedes; {n,m} with m < n is
\* rejected as well.
C22_BadRepetitionRejected ==
    (api.family = "ignored" /\ BadRepetition(api.pieces)) =>
        /\ pc \in {"new", "thrown"}
        /\ pc = "thrown" => api.error = "SyntaxError"


\* the call has put a piece of ignored syntax between two pieces
Inserted == api.family = "ignored" /\ api.at >= 0

\* new Regex of the pattern without the ignored piece, same options
Plain == Construct(Chars(api.pieces), api.flags, api.rightToLeft)

\* C23: a comment (under flag x also whitespace or a line comment) put at
\* any point between the pieces of an accepted pattern, its start and end,
\* the start and end of a group or of an alternation branch included,
\* yields a Regex that is accepted and matches exactly like the pattern
\* without it.
C23_IgnoredSyntaxChangesNothing ==
    (Inserted /\ Plain.error = "") =>
        /\ pc # "thrown"
        /\ pc \in {"done", "hung", "threw"} =>
              /\ pc = MatchesOf(Plain.regex, input).pc
              /\ found = MatchesOf(Plain.regex, input).found


\* the atoms of the pattern of the family "scope": a literal, the group,
\* and a literal
ScopeAtoms == regex.ast.atoms

\* C24: an inline flags modifier affects only the rest of the innermost
\* enclosing group: the literal after the group's closing parenthesis is
\* parsed under the flags of the literal before the group, for every kind
\* of group, and after a successful parse the flag stack has the depth it
\* had before parsing.
C24_FlagsModifierStaysInGroup ==
    (api.family = "scope" /\ pc = "constructed") =>
        /\ ScopeAtoms[Len(ScopeAtoms)] = ScopeAtoms[1]
        /\ Len(parser.flags) = Len(NewFlags(api.flags))


\* the names of the groups that the pieces of the call define
Defined == {d.name : d \in {x \in Definitions : \E i \in 1..Len(api.pieces) : api.pieces[i] = x.text}}

\* the node that the reference piece was parsed to: a right-to-left Regex
\* holds its atoms in reverse order
ReferenceNode ==
    regex.ast.atoms[IF api.rightToLeft THEN Len(api.pieces) + 1 - api.ref ELSE api.ref]

\* the group a node refers to
Referent(node) ==
    CASE node.kind = "Proxy" -> node.expression.group
      [] node.kind = "Reference" -> node.group
      [] node.kind = "BalancingGroup" -> node.popGroup
      [] node.kind = "Conditional" -> node.condGroup
      [] node.kind = "Group" -> node.group

\* where the reference piece starts and ends in the pattern
ReferenceStart == Len(Chars(SubSeq(api.pieces, 1, api.ref - 1)))

ReferenceEnd == ReferenceStart + Len(api.pieces[api.ref])

\* no fallback takes the reference: \1 is no octal code, and only a
\* conditional on a name that is not a number becomes an implicit lookahead
FallbackDeclines == api.pieces[api.ref] # <<"(", "?", "(", "A", ")", "a", "|", "b", ")">>

\* C25: a reference by name or number resolves to the group of that name
\* whether the group is defined before or after it; when no such group
\* exists and the fallback declines, construction fails with a syntax error
\* that cites the position of the reference.
C25_ReferencesResolveAfterParse ==
    (api.family = "reference" /\ pc # "new") =>
        /\ api.name \in Defined =>
              /\ pc # "thrown"
              /\ Referent(ReferenceNode) = api.name
        /\ (api.name \notin Defined /\ FallbackDeclines) =>
              /\ pc = "thrown"
              /\ api.error = "SyntaxError"
              /\ api.position \in ReferenceStart..(ReferenceEnd - 1)


RECURSIVE ProxiesOf(_)

\* the Proxy nodes of an expression
ProxiesOf(e) ==
    CASE e.kind = "Proxy" -> {e}
      [] e.kind = "Sequence" -> UNION {ProxiesOf(e.atoms[i]) : i \in 1..Len(e.atoms)}
      [] e.kind \in {"Alternation", "Anchor"} -> ProxiesOf(e.left) \cup ProxiesOf(e.right)
      [] e.kind \in {"Repetition", "Group", "BalancingGroup"} -> ProxiesOf(e.atom)
      [] e.kind = "Atomic" -> ProxiesOf(e.expression)
      [] e.kind = "Conditional" ->
            ProxiesOf(e.left) \cup ProxiesOf(e.right) \cup ProxiesOf(e.condAnchor)
      [] OTHER -> {}

\* the expressions that the post-parse actions passed to setExpression
ProxyTargets ==
    {IF PostParseFound(parser, a) THEN Reference(a.ignoreCase, GroupOf(a)) ELSE OctalSequence(a) :
        a \in {x \in {parser.postParseActions[i] : i \in 1..Len(parser.postParseActions)} :
                  x.field = "proxy"}}

\* C30: a Proxy that was inverted an odd number of times forwards to the
\* inverted target, whether invert() came before setExpression (inside a
\* lookbehind) or after it (a right-to-left Regex): the octal Sequence of a
\* right-to-left Regex is reversed.
C30_InvertedProxyForwardsInverted ==
    (api.family \in {"octal", "reference"} /\ pc = "constructed") =>
        \A proxy \in ProxiesOf(regex.ast) :
            \E target \in ProxyTargets :
                proxy.expression = IF proxy.inverted THEN InvertExpr(target) ELSE target


-----------------------------------------------------------------------------
(* The worked examples: new Regex(pattern), then match() or matches() on   *)
(* the example's input, one turn of getMatch per action.                   *)

\* (a(b)*)*(b)
MultiCapture == <<"(", "a", "(", "b", ")", "*", ")", "*", "(", "b", ")">>

\* (?<A>a)+(?<-A>b)+
Subtraction ==
    <<"(", "?", "<", "A", ">", "a", ")", "+", "(", "?", "<", "-", "A", ">", "b", ")", "+">>

\* (?<=ab+)c
VariableLookbehind == <<"(", "?", "<", "=", "a", "b", "+", ")", "c">>

\* \b(?<a>a)?(?(a)a*|\w+)
ConditionalOnGroup ==
    <<"\\", "b", "(", "?", "<", "a", ">", "a", ")", "?",
      "(", "?", "(", "a", ")", "a", "*", "|", "\\", "w", "+", ")">>

\* (a*)*b, whose search does not come back on "aabca"
NestedStar == <<"(", "a", "*", ")", "*", "b">>

\* (?<A>a)(?<-A>(?<-A>b))a|b, whose search throws on "ab"
NestedSubtraction ==
    <<"(", "?", "<", "A", ">", "a", ")", "(", "?", "<", "-", "A", ">",
      "(", "?", "<", "-", "A", ">", "b", ")", ")", "a", "|", "b">>

ExampleTexts ==
    {MultiCapture, Subtraction, VariableLookbehind, ConditionalOnGroup, NestedStar,
     NestedSubtraction}

ExampleInputs ==
    { <<"a", "a", "b", "b", "b", "a", "a", "b">>,
      <<"a", "a", "a", "b">>,
      <<"a", "a", "b", "b", "c", "c">>,
      <<"a", "a", "a", "b", "b", "b", " ", "b", "b", "b", "a", "a", "a">>,
      <<"a", "a", "b", "c", "a">>,
      <<"a", "b">> }

ExampleInit ==
    /\ ptext \in ExampleTexts
    /\ \E rightToLeft \in BOOLEAN : regex = Construct(ptext, <<>>, rightToLeft).regex
    /\ input \in ExampleInputs
    /\ op \in {"match", "matches"}
    /\ st = CreateState(regex, input, FALSE, 0)
    /\ pc = "search"
    /\ found = <<>>
    /\ hist = [event |-> "start", startIndex |-> st.currentIndex,
               cursor |-> st.currentIndex, origin |-> st.currentIndex]
    /\ toks = <<>>
    /\ last = Idle
    /\ scanner = Idle
    /\ parser = Idle
    /\ api = Idle

ExampleNext ==
    \/ GetMatchFound
    \/ GetMatchFailed
    \/ GetMatchOutOfBounds
    \/ GetMatchHangs
    \/ GetMatchThrows

ExampleSpec == ExampleInit /\ [][ExampleNext]_vars

\* the left-to-right search for the pattern on the input has ended
Searched(text, str) ==
    /\ ptext = text
    /\ input = str
    /\ ~regex.rightToLeft
    /\ pc = "done"

\* the values of the captures of a group of a Match, oldest first
CaptureValues(match, group) ==
    [i \in 1..Len(match.groups[group]) |-> match.groups[group][i].value]

\* index and length of every Match found
FoundSpans == [i \in 1..Len(found) |-> <<found[i].index, found[i].length>>]

\* C26 (amended): (a(b)*)*(b) on "aabbbaab" gives one match at index 0 of
\* length 8; group 1 has the captures a, abbb, a, a, group 2 has b, b, b
\* and group 3 has b.
C26_MultiCaptureExample ==
    Searched(MultiCapture, <<"a", "a", "b", "b", "b", "a", "a", "b">>) =>
        /\ FoundSpans = <<<<0, 8>>>>
        /\ CaptureValues(found[1], "1")
              = << <<"a">>, <<"a", "b", "b", "b">>, <<"a">>, <<"a">> >>
        /\ CaptureValues(found[1], "2") = << <<"b">>, <<"b">>, <<"b">> >>
        /\ CaptureValues(found[1], "3") = << <<"b">> >>

\* C26 as stated: (a(b)*)*(b) on "aabbbaab" gives one match at index 0 of
\* length 8; group 1 has the captures a, abbb, aab, group 2 has b, b, b, b
\* and group 3 has b.
C26_MultiCaptureAsStated ==
    Searched(MultiCapture, <<"a", "a", "b", "b", "b", "a", "a", "b">>) =>
        /\ FoundSpans = <<<<0, 8>>>>
        /\ CaptureValues(found[1], "1")
              = << <<"a">>, <<"a", "b", "b", "b">>, <<"a", "a", "b">> >>
        /\ CaptureValues(found[1], "2") = << <<"b">>, <<"b">>, <<"b">>, <<"b">> >>
        /\ CaptureValues(found[1], "3") = << <<"b">> >>

C26_Witness ==
    /\ Searched(MultiCapture, <<"a", "a", "b", "b", "b", "a", "a", "b">>)
    /\ Len(found) = 1
    /\ Len(found[1].groups["2"]) = 3


\* C27 (amended): (?<A>a)+(?<-A>b)+ on "aaab" gives the match "aaab"; the
\* one b pops one of the three captures of A, whose stack holds a, a at
\* the end of the match.
C27_SubtractionExample ==
    Searched(Subtraction, <<"a", "a", "a", "b">>) =>
        /\ FoundSpans = <<<<0, 4>>>>
        /\ found[1].value = <<"a", "a", "a", "b">>
        /\ CaptureValues(found[1], "A") = << <<"a">>, <<"a">> >>

\* C27 as stated: (?<A>a)+(?<-A>b)+ on "aaab" gives the match "aaab", and
\* all three captures of A are popped: its stack is empty at the end.
C27_SubtractionAsStated ==
    Searched(Subtraction, <<"a", "a", "a", "b">>) =>
        /\ FoundSpans = <<<<0, 4>>>>
        /\ found[1].value = <<"a", "a", "a", "b">>
        /\ CaptureValues(found[1], "A") = <<>>

C27_Witness ==
    /\ Searched(Subtraction, <<"a", "a", "a", "b">>)
    /\ Len(found) = 1
    /\ found[1].length = 4


\* the lookbehind of (?<=ab+)c, the first atom of the Regex
TheLookbehind == regex.ast.atoms[1]

\* C28: a lookbehind holds its inner expression with the children in
\* reverse order, evaluates it from the cursor leftwards and gives the
\* cursor and the direction back; (?<=ab+)c on "aabbcc" yields exactly one
\* match, "c" at index 4.
C28_LookbehindRunsBackwards ==
    (ptext = VariableLookbehind /\ ~regex.rightToLeft) =>
        /\ TheLookbehind.right = NoExpr
        /\ TheLookbehind.left = Sequence(<<Plus(Lit("b")), Lit("a")>>)
        /\ (pc = "search" /\ ~OutOfBounds(st)) =>
              LET r == AnchorMatch(TheLookbehind, st)
              IN /\ r.st.currentIndex = st.currentIndex
                 /\ r.st.direction = st.direction
                 /\ r.ok => /\ r.tok.hasLeft
                            /\ st.currentIndex >= 2
                            /\ st.str[st.currentIndex] = "b"
        /\ Searched(VariableLookbehind, <<"a", "a", "b", "b", "c", "c">>) =>
              /\ FoundSpans = <<<<4, 1>>>>
              /\ found[1].value = <<"c">>

C28_Witness ==
    /\ Searched(VariableLookbehind, <<"a", "a", "b", "b", "c", "c">>)
    /\ op = "matches"
    /\ Len(found) = 1


\* the Conditional of \b(?<a>a)?(?(a)a*|\w+), the third atom of the Regex
TheConditional == regex.ast.atoms[3]

\* the State with one capture more on the stack of group a
WithCapture(s) == RepushCapture(s, "a", CaptureValue(<<"a">>, 0))

\* Conditional.match on s takes the branch that the condition selects and
\* fails when that branch fails; backtrack stays on the branch of the token.
KeepsBranch(e, s) ==
    LET side == IF HasCapture(s, e.condGroup) THEN "left" ELSE "right"
        selected == IF side = "left" THEN e.left ELSE e.right
        m == ConditionalMatch(e, s)
        b == ConditionalBacktrack(e, m.st, m.tok)
    IN /\ m.ok = Match(selected, s).ok
       /\ m.ok => /\ m.tok.side = side
                  /\ m.tok.matchToken = Match(selected, s).tok
                  /\ b.ok = Backtrack(selected, m.st, m.tok.matchToken).ok
                  /\ b.ok => b.tok.side = side

\* C29: a Conditional matches only the branch its condition selects (a
\* group condition holds iff the group has a capture) and on backtrack
\* retries only that branch; \b(?<a>a)?(?(a)a*|\w+) on "aaabbb bbbaaa"
\* yields exactly "aaa" at 0 and "bbbaaa" at 7.
C29_ConditionalKeepsBranch ==
    (ptext = ConditionalOnGroup /\ ~regex.rightToLeft) =>
        /\ (pc = "search" /\ ~OutOfBounds(st)) =>
              /\ KeepsBranch(TheConditional, st)
              /\ KeepsBranch(TheConditional, WithCapture(st))
        /\ (op = "matches"
            /\ Searched(ConditionalOnGroup,
                        <<"a", "a", "a", "b", "b", "b", " ", "b", "b", "b", "a", "a", "a">>)) =>
              /\ FoundSpans = << <<0, 3>>, <<7, 6>> >>
              /\ found[1].value = <<"a", "a", "a">>
              /\ found[2].value = <<"b", "b", "b", "a", "a", "a">>

C29_Witness ==
    /\ op = "matches"
    /\ Searched(ConditionalOnGroup,
                <<"a", "a", "a", "b", "b", "b", " ", "b", "b", "b", "a", "a", "a">>)
    /\ Len(found) = 2
    /\ CaptureValues(found[1], "a") = << <<"a">> >>
    /\ CaptureValues(found[2], "a") = <<>>


-----------------------------------------------------------------------------
(* Conditional.invert on an implicit lookahead (family "implicit").        *)

\* the Conditional of the constructed Regex: the only atom, or the only atom
\* of the lookbehind's side
ImplicitConditional ==
    IF Len(api.pieces) = 1 THEN regex.ast.atoms[1] ELSE regex.ast.atoms[1].left.atoms[1]

\* the characters of a Sequence of literal characters
Letters(e) == [i \in 1..Len(e.atoms) |-> CHOOSE c \in e.atoms[i].filter.set : TRUE]

\* the characters of the condition as the pattern writes them
ConditionLetters ==
    IF Len(api.pieces[Len(api.pieces) - (IF Len(api.pieces) = 1 THEN 0 ELSE 1)]) = 11
    THEN <<"b", "a">> ELSE <<"b", "-", "a">>

\* C31: an inverted Conditional with an implicit lookahead has both branches
\* reversed and its condition on the left side, reversed, whether the
\* inversion came from right-to-left mode or from the lookbehind around it,
\* and whether the implicit lookahead was recognised when the condition was
\* parsed or by the post-parse action.
C31_ImplicitLookaheadInverted ==
    (api.family = "implicit" /\ pc = "constructed"
        /\ (api.rightToLeft \/ Len(api.pieces) = 3)) =>
        /\ ImplicitConditional.isImplicitLookahead
        /\ Letters(ImplicitConditional.left) = <<"b", "a">>
        /\ Letters(ImplicitConditional.right) = <<"b">>
        /\ ImplicitConditional.condAnchor.right.kind = "none"
        /\ ImplicitConditional.condAnchor.left.kind = "Sequence"
        /\ Letters(ImplicitConditional.condAnchor.left) = Reverse(ConditionLetters)


-----------------------------------------------------------------------------
(* A parent of an Anchor: it calls match on the Anchor in a State whose    *)
(* cursor, direction and anchor stack are those of any place the Anchor    *)
(* can stand in (at the top level of a Regex of either direction, or       *)
(* inside another Anchor), and then backtrack or discard with the token.   *)
(* need holds the characters the Anchor's sides read, by their offset      *)
(* from the cursor; caps the captures they push.                           *)

AnchorCase(node, groups, need, caps) ==
    [node |-> node, groups |-> groups, need |-> need, caps |-> caps]

AnchorCases ==
    { \* (?=a), (?!a), (?<=a), (?<!a)
      AnchorCase(Lookahead(Seq1(Lit("a")), FALSE), {}, {<<0, "a">>}, {}),
      AnchorCase(Lookahead(Seq1(Lit("a")), TRUE), {}, {<<0, "a">>}, {}),
      AnchorCase(Lookbehind(Seq1(Lit("a")), FALSE), {}, {<<-1, "a">>}, {}),
      AnchorCase(Lookbehind(Seq1(Lit("a")), TRUE), {}, {<<-1, "a">>}, {}),
      \* (?<=(?<B>a)b)
      AnchorCase(Lookbehind(Sequence(<<Group(Seq1(Lit("a")), "B"), Lit("b")>>), FALSE),
                 {"B"}, {<<-2, "a">>, <<-1, "b">>}, {<<"B", -2, "a">>}),
      \* (?<=a(?=(?<F>b)))
      AnchorCase(Lookbehind(Sequence(<<Lit("a"),
                                       Lookahead(Seq1(Group(Seq1(Lit("b")), "F")), FALSE)>>),
                            FALSE),
                 {"F"}, {<<-1, "a">>, <<0, "b">>}, {<<"F", 0, "b">>}),
      \* (?=a(?<=(?<B>a))(?<F>b))
      AnchorCase(Lookahead(Sequence(<<Lit("a"),
                                      Lookbehind(Seq1(Group(Seq1(Lit("a")), "B")), FALSE),
                                      Group(Seq1(Lit("b")), "F")>>),
                           FALSE),
                 {"B", "F"}, {<<0, "a">>, <<1, "b">>}, {<<"B", 0, "a">>, <<"F", 1, "b">>}),
      \* (?=(?<F>a*)b)
      AnchorCase(Lookahead(Sequence(<<Group(Seq1(Star(Lit("a"))), "F"), Lit("b")>>), FALSE),
                 {"F"}, {}, {}) }

\* the anchor stack of a State outside every Anchor, and inside one
OuterStacks == {<<>>, <<[index |-> 0, direction |-> 1]>>}

AnchorInit ==
    /\ \E c \in AnchorCases :
          /\ regex = [ast |-> c.node, groups |-> c.groups]
          /\ api = [need |-> c.need, caps |-> c.caps]
    /\ input \in Strings(MaxLen)
    /\ \E start \in 0..Len(input), direction \in {-1, 1}, stack \in OuterStacks :
          st = [NewState(input, regex.groups, start, direction) EXCEPT !.stateStack = stack]
    /\ op = "anchor"
    /\ pc = "fresh"
    /\ found = <<>>
    /\ hist = Idle
    /\ toks = <<>>
    /\ last = Idle
    /\ scanner = Idle
    /\ ptext = <<>>
    /\ parser = Idle

\* token = anchor.match(state)
AnchorCallMatch ==
    /\ pc = "fresh"
    /\ \E r \in {Match(regex.ast, Rearm(st))} :
          /\ ~Halted(r.st)
          /\ st' = Rearm(r.st)
          /\ last' = Outcome("match", r.ok, 0, View(st), r.st)
          /\ IF r.ok
             THEN pc' = "live" /\ toks' = <<r.tok>>
             ELSE pc' = "over" /\ toks' = <<>>
    /\ UNCHANGED <<regex, input, op, found, hist, scanner, ptext, parser, api>>

\* anchor.backtrack(state, token): it returns undefined
AnchorCallBacktrack ==
    /\ pc = "live"
    /\ \E r \in {Backtrack(regex.ast, Rearm(st), toks[1])} :
          /\ ~Halted(r.st)
          /\ st' = Rearm(r.st)
          /\ last' = Outcome("backtrack", r.ok, 1, View(st), r.st)
          /\ IF r.ok
             THEN pc' = "live" /\ toks' = <<r.tok>>
             ELSE pc' = "over" /\ toks' = <<>>
    /\ UNCHANGED <<regex, input, op, found, hist, scanner, ptext, parser, api>>

\* anchor.discard(state, token)
AnchorCallDiscard ==
    /\ pc = "live"
    /\ \E s1 \in {Discard(regex.ast, Rearm(st), toks[1])} :
          /\ st' = Rearm(s1)
          /\ last' = Outcome("discard", FALSE, 1, View(st), s1)
    /\ pc' = "over"
    /\ toks' = <<>>
    /\ UNCHANGED <<regex, input, op, found, hist, scanner, ptext, parser, api>>

AnchorNext == AnchorCallMatch \/ AnchorCallBacktrack \/ AnchorCallDiscard

AnchorSpec == AnchorInit /\ [][AnchorNext]_vars

\* the character of the input at index i, "" outside it
CharAt(str, i) == IF i >= 0 /\ i < Len(str) THEN str[i + 1] ELSE ""

\* the sides of the Anchor find their characters when each is read at its
\* offset from the cursor the Anchor was called at
SidesFind == \A n \in api.need : CharAt(input, last.before.currentIndex + n[1]) = n[2]

\* C32: match, backtrack and discard of an Anchor return with the cursor,
\* the direction and the anchor stack they were called with, whether they
\* succeed or fail; the left side runs leftwards and the right side
\* rightwards whatever the direction of the caller, also in an Anchor nested
\* in an Anchor: the Anchor matches exactly when its sides find their
\* characters at their offsets, and the captures lie there.
C32_AnchorRestoresCursorAndDirection ==
    last.event \in {"match", "backtrack", "discard"} =>
        /\ last.after.currentIndex = last.before.currentIndex
        /\ last.after.direction = last.before.direction
        /\ last.after.stateStack = last.before.stateStack
        /\ (last.event = "match" /\ api.need # {}) =>
              /\ last.ok = (SidesFind # regex.ast.negate)
              /\ last.ok =>
                    \A c \in api.caps :
                        /\ Len(last.after.groups[c[1]]) = 1
                        /\ last.after.groups[c[1]][1] =
                              CaptureValue(<<c[3]>>, last.before.currentIndex + c[2])

C32_Witness ==
    /\ last.event = "backtrack"
    /\ Cardinality(api.caps) = 2
    /\ st.direction = -1
    /\ Len(st.stateStack) = 1


-----------------------------------------------------------------------------
(* A parent of a Repetition: new Regex(atom modifier) builds the           *)
(* Repetition, or throws; the parent calls match on the Repetition at a    *)
(* cursor of the input and then, while it holds a token, backtrack or      *)
(* discard.  found holds the tokens the Repetition has returned, oldest    *)
(* first.                                                                  *)

\* tokens a parent takes from one Repetition, one after the other
MaxYields == 6

RepetitionAtoms ==
    { <<"a">>,
      <<"(", "?", ":", "a", "|", "a", "b", ")">>,
      <<"(", "?", ":", "|", "a", ")">>,
      <<"(", "?", ":", "a", "|", ")">>,
      <<"(", "a", "*", ")">>,
      <<"(", "?", ":", ")">> }

RepetitionCounts ==
    { <<"*">>, <<"+">>, <<"?">>, <<"{", "2", "}">>, <<"{", "1", ",", "2", "}">>,
      <<"{", "0", ",", "}">>, <<"{", "2", ",", "1", "}">>, <<"{", "0", ",", "0", "}">> }

RepetitionModifiers == RepetitionCounts \cup {m \o <<"?">> : m \in RepetitionCounts}

RepetitionInit ==
    /\ \E a \in RepetitionAtoms, m \in RepetitionModifiers, rightToLeft \in BOOLEAN :
          /\ ptext = a \o m
          /\ api = Call("repetition", <<a, m>>, -1, <<>>, rightToLeft, 0, "")
    /\ input \in Strings(MaxLen)
    /\ op = "new"
    /\ pc = "new"
    /\ regex = Idle
    /\ parser = Idle
    /\ st = Idle
    /\ found = <<>>
    /\ hist = Idle
    /\ toks = <<>>
    /\ last = Idle
    /\ scanner = Idle

\* the Repetition: the only atom of the Regex
TheRepetition == regex.ast.atoms[1]

\* token = repetition.match(state), at any cursor of the input
RepetitionCallMatch ==
    /\ pc = "constructed"
    /\ \E start \in 0..Len(input) :
          \E r \in {Match(TheRepetition, CreateState(regex, input, TRUE, start))} :
             /\ ~Halted(r.st)
             /\ st' = Rearm(r.st)
             /\ last' = Outcome("match", r.ok, 0,
                                View(CreateState(regex, input, TRUE, start)), r.st)
             /\ IF r.ok
                THEN pc' = "live" /\ toks' = <<r.tok>> /\ found' = <<r.tok>>
                ELSE pc' = "over" /\ toks' = <<>> /\ found' = <<>>
    /\ UNCHANGED <<regex, input, op, hist, scanner, ptext, parser, api>>

\* token = repetition.backtrack(state, token)
RepetitionCallBacktrack ==
    /\ pc = "live"
    /\ Len(found) < MaxYields
    /\ \E r \in {Backtrack(TheRepetition, Rearm(st), toks[1])} :
          /\ ~Halted(r.st)
          /\ st' = Rearm(r.st)
          /\ last' = Outcome("backtrack", r.ok, last.chain + 1, last.before, r.st)
          /\ IF r.ok
             THEN pc' = "live" /\ toks' = <<r.tok>> /\ found' = Append(found, r.tok)
             ELSE pc' = "over" /\ toks' = <<>> /\ found' = found
    /\ UNCHANGED <<regex, input, op, hist, scanner, ptext, parser, api>>

\* repetition.discard(state, token)
RepetitionCallDiscard ==
    /\ pc = "live"
    /\ \E s1 \in {Discard(TheRepetition, Rearm(st), toks[1])} :
          /\ st' = Rearm(s1)
          /\ last' = Outcome("discard", FALSE, last.chain, last.before, s1)
    /\ pc' = "discarded"
    /\ toks' = <<>>
    /\ UNCHANGED <<regex, input, op, found, hist, scanner, ptext, parser, api>>

RepetitionNext ==
    \/ NewRegexReturns
    \/ NewRegexThrows
    \/ RepetitionCallMatch
    \/ RepetitionCallBacktrack
    \/ RepetitionCallDiscard

RepetitionSpec == RepetitionInit /\ [][RepetitionNext]_vars

\* the count of the modifier as the pattern writes it
WrittenMaxBelowMin ==
    api.pieces[2] \in {<<"{", "2", ",", "1", "}">>, <<"{", "2", ",", "1", "}", "?">>}

\* C33: a token that Repetition.match or Repetition.backtrack returns holds
\* at least min and at most max iteration tokens, and no Regex holds a
\* Repetition with max < min: the constructor throws for that count.
C33_IterationsWithinBounds ==
    /\ pc \in {"constructed", "live", "over", "discarded"} =>
          /\ TheRepetition.kind = "Repetition"
          /\ TheRepetition.unbounded \/ TheRepetition.min <= TheRepetition.max
          /\ ~WrittenMaxBelowMin
    /\ (pc = "live" /\ last.event \in {"match", "backtrack"}) =>
          /\ Len(toks[1]) >= TheRepetition.min
          /\ LtMax(Len(toks[1]) - 1, TheRepetition)
    /\ (pc = "thrown" /\ api.error = "SyntaxError") => WrittenMaxBelowMin

C33_Witness ==
    /\ pc = "live"
    /\ last.event = "backtrack"
    /\ TheRepetition.min = 1
    /\ ~TheRepetition.unbounded
    /\ TheRepetition.max = 2
    /\ TheRepetition.lazy
    /\ Len(toks[1]) = 2


\* the tokens are those of a greedy, of a lazy Repetition
GreedyYields == pc \in {"live", "over", "discarded"} /\ ~TheRepetition.lazy

LazyYields == pc \in {"live", "over", "discarded"} /\ TheRepetition.lazy

\* the last iteration of the token the parent holds left the cursor where
\* it was
LastIterationEmpty ==
    /\ toks[1] # <<>>
    /\ Discard(TheRepetition.atom, st, toks[1][Len(toks[1])]).currentIndex = st.currentIndex

\* the lazy Repetition is asked to backtrack while it may add an iteration
\* and the atom matches at the cursor: the token it returns is the old one
\* with that iteration added
LazyAddsOneFirst ==
    (/\ pc = "live"
     /\ TheRepetition.lazy
     /\ LtMax(Len(toks[1]), TheRepetition)
     /\ Match(TheRepetition.atom, st).ok
     /\ last'.event = "backtrack"
     /\ last'.chain = last.chain + 1)
    => /\ pc' = "live"
       /\ toks'[1] = Append(toks[1], Match(TheRepetition.atom, st).tok)

NoTokenTwice == \A i, j \in 1..Len(found) : i # j => found[i] # found[j]

LazyFirstHoldsMin == (LazyYields /\ found # <<>>) => Len(found[1]) = TheRepetition.min

\* C34, as stated: the first success of a greedy Repetition holds as many
\* iterations as it can reach: it ends at max or where the atom does not
\* match once more; the first success of a lazy one holds min iterations
\* and each backtrack first adds one iteration; no token is returned twice.
C34_GreedyLargestLazySmallest ==
    /\ []((GreedyYields /\ pc = "live" /\ last.event = "match") =>
            \/ ~LtMax(Len(toks[1]), TheRepetition)
            \/ ~Match(TheRepetition.atom, st).ok)
    /\ []LazyFirstHoldsMin
    /\ []NoTokenTwice
    /\ [][LazyAddsOneFirst]_vars

\* C34, with the zero-progress guard: the first success of a greedy
\* Repetition ends at max, where the atom does not match once more, or
\* behind an iteration that left the cursor where it was (with min
\* iterations or more).  The first success of a lazy one holds min
\* iterations and each backtrack first adds one iteration; no token is
\* returned twice.
C34_GreedyUpToEmptyIteration ==
    /\ []((GreedyYields /\ pc = "live" /\ last.event = "match") =>
            \/ ~LtMax(Len(toks[1]), TheRepetition)
            \/ ~Match(TheRepetition.atom, st).ok
            \/ LastIterationEmpty /\ Len(toks[1]) >= TheRepetition.min)
    /\ []LazyFirstHoldsMin
    /\ []NoTokenTwice
    /\ [][LazyAddsOneFirst]_vars

\* the first token of a greedy Repetition ends behind an empty iteration
\* where it could hold one more
C34_Witness ==
    /\ GreedyYields
    /\ pc = "live"
    /\ last.event = "match"
    /\ LastIterationEmpty
    /\ LtMax(Len(toks[1]), TheRepetition)
    /\ Match(TheRepetition.atom, st).ok


-----------------------------------------------------------------------------
(* Atomic and BalancingGroup nodes under a caller that holds the token:    *)
(* match, then any number of backtracks, or a discard.  The State the node *)
(* is called with already holds captures of X (and perhaps one of Y), as   *)
(* groups matched earlier in the pattern leave them.                       *)

\* pops: the captures of X the inner pattern pops itself
GroupingCase(node, pops) == [node |-> node, pops |-> pops]

AtomicNodes ==
    { \* (?>ab?), (?>a|ab), (?>a*?), (?>(?<X>a)+)
      Atomic(Sequence(<<Lit("a"), Opt(Lit("b"))>>)),
      Atomic(Alternation(Seq1(Lit("a")), Sequence(<<Lit("a"), Lit("b")>>))),
      Atomic(Seq1(LazyStar(Lit("a")))),
      Atomic(Seq1(Plus(Group(Seq1(Lit("a")), "X")))) }

\* (?>ab?)b
AtomicThenB == Sequence(<<Atomic(Sequence(<<Lit("a"), Opt(Lit("b"))>>)), Lit("b")>>)

BalancingNodes ==
    { \* (?<Y-X>a), (?<Y-X>), (?<Y-X>a|ab), (?<Y-X>b*), (?<X-X>a)
      BalancingGroup(Seq1(Lit("a")), "Y", "X"),
      BalancingGroup(Sequence(<<>>), "Y", "X"),
      BalancingGroup(Alternation(Seq1(Lit("a")), Sequence(<<Lit("a"), Lit("b")>>)), "Y", "X"),
      BalancingGroup(Seq1(Star(Lit("b"))), "Y", "X"),
      BalancingGroup(Seq1(Lit("a")), "X", "X") }

\* (?<Y-X>(?<-X>a))
BalancingPopsTwice == BalancingGroup(Seq1(BalancingGroup(Seq1(Lit("a")), "", "X")), "Y", "X")

GroupingCases ==
    {GroupingCase(n, 0) : n \in AtomicNodes \cup BalancingNodes \cup {AtomicThenB}}
        \cup {GroupingCase(BalancingPopsTwice, 1)}

\* the captures a group can hold of str: spans of up to two characters
SpansOf(str) ==
    {CaptureValue(Substring(str, i, i + n), i) : i \in 0..Len(str), n \in 0..2}

\* the stacks of X when the node is called: empty, one capture, or the
\* empty capture at 0 below another one
EarlierCaptures(str) ==
    {<<>>} \cup {<<c>> : c \in SpansOf(str)}
           \cup {<<CaptureValue(<<>>, 0), c>> : c \in SpansOf(str)}

GroupingInit ==
    /\ input \in Strings(MaxLen)
    /\ \E c \in GroupingCases, direction \in {-1, 1} :
          /\ regex = [ast |-> IF direction = 1 THEN c.node ELSE InvertExpr(c.node),
                      groups |-> {"X", "Y"}]
          /\ api = c
          /\ \E start \in 0..Len(input), x \in EarlierCaptures(input), hasY \in BOOLEAN :
                st = [NewState(input, regex.groups, start, direction)
                        EXCEPT !.groups = [g \in {"X", "Y"} |->
                                 IF g = "X" THEN x
                                 ELSE IF hasY THEN <<CaptureValue(<<>>, 0)>> ELSE <<>>]]
    /\ op = "grouping"
    /\ pc = "fresh"
    /\ found = <<>>
    /\ hist = Idle
    /\ toks = <<>>
    /\ last = Idle
    /\ scanner = Idle
    /\ ptext = <<>>
    /\ parser = Idle

\* token = node.match(state); hist keeps the State of the call
GroupingCallMatch ==
    /\ pc = "fresh"
    /\ \E r \in {Match(regex.ast, Rearm(st))} :
          /\ r.st.steps < MaxSteps
          /\ st' = Rearm(r.st)
          /\ last' = Outcome("match", r.ok, 0, View(st), r.st)
          /\ IF r.st.thrown THEN pc' = "threw" /\ toks' = <<>>
             ELSE IF r.ok THEN pc' = "live" /\ toks' = <<r.tok>>
             ELSE pc' = "over" /\ toks' = <<>>
    /\ hist' = View(st)
    /\ UNCHANGED <<regex, input, op, found, scanner, ptext, parser, api>>

\* token = node.backtrack(state, token)
GroupingCallBacktrack ==
    /\ pc = "live"
    /\ last.chain < MaxChain
    /\ \E r \in {Backtrack(regex.ast, Rearm(st), toks[1])} :
          /\ r.st.steps < MaxSteps
          /\ st' = Rearm(r.st)
          /\ last' = Outcome("backtrack", r.ok, last.chain + 1, View(st), r.st)
          /\ IF r.st.thrown THEN pc' = "threw" /\ toks' = <<>>
             ELSE IF r.ok THEN pc' = "live" /\ toks' = <<r.tok>>
             ELSE pc' = "over" /\ toks' = <<>>
    /\ UNCHANGED <<regex, input, op, found, hist, scanner, ptext, parser, api>>

\* node.discard(state, token)
GroupingCallDiscard ==
    /\ pc = "live"
    /\ \E s1 \in {Discard(regex.ast, Rearm(st), toks[1])} :
          /\ st' = Rearm(s1)
          /\ last' = Outcome("discard", FALSE, last.chain, View(st), s1)
    /\ pc' = "over"
    /\ toks' = <<>>
    /\ UNCHANGED <<regex, input, op, found, hist, scanner, ptext, parser, api>>

GroupingNext == GroupingCallMatch \/ GroupingCallBacktrack \/ GroupingCallDiscard

GroupingSpec == GroupingInit /\ [][GroupingNext]_vars

\* C35: once an Atomic group has matched, a backtrack into it fails and the
\* State is the one the group was first called with (cursor, captures,
\* direction, anchor stack): no second candidate; and (?>ab?)b, read
\* rightwards, matches exactly where the input reads abb, so not on "ab".
C35_AtomicNeverBacktracks ==
    /\ (regex.ast.kind = "Atomic" /\ last.event = "backtrack") =>
          /\ ~last.ok
          /\ pc = "over"
          /\ last.after = hist
    /\ (api.node = AtomicThenB /\ last.event = "match" /\ hist.direction = 1) =>
          last.ok = (Substring(input, hist.currentIndex, hist.currentIndex + 3)
                        = <<"a", "b", "b">>)

\* a backtrack into (?>ab?) after it took the b
C35_Witness ==
    /\ api.node = Atomic(Sequence(<<Lit("a"), Opt(Lit("b"))>>))
    /\ last.event = "backtrack"
    /\ last.before.currentIndex = hist.currentIndex + 2

\* (?>ab?)b was tried on "ab" at 0
AtomicThenBOnAb ==
    /\ api.node = AtomicThenB /\ last.event = "match" /\ hist.direction = 1
    /\ input = <<"a", "b">> /\ hist.currentIndex = 0


\* the stack of X in the State the node was first called with
EarlierX == hist.groups["X"]

\* the capture of X the balancing group pops, below those its pattern pops
BalancedCapture == EarlierX[Len(EarlierX) - api.pops]

\* the span between or shared by [a, b] and [c, d]: the middle two of the
\* four boundaries
MiddleSpan(a, b, c, d) ==
    [lo |-> Min(Max(a, c), Min(b, d)), hi |-> Max(Max(a, c), Min(b, d))]

\* the capture Y receives when the group has matched up to cursor
BalancedSpan(cursor) ==
    MiddleSpan(BalancedCapture.index, BalancedCapture.index + Len(BalancedCapture.value),
               Min(hist.currentIndex, cursor), Max(hist.currentIndex, cursor))

ReceivedCapture(cursor) ==
    CaptureValue(SubSeq(input, BalancedSpan(cursor).lo + 1, BalancedSpan(cursor).hi),
                 BalancedSpan(cursor).lo)

\* the stacks after a success of (?<Y-X>pat) that ends at cursor
BalancedGroups(cursor) ==
    LET rest == SubSeq(EarlierX, 1, Len(EarlierX) - api.pops - 1)
    IN IF regex.ast.pushGroup = "X"
       THEN [g \in {"X", "Y"} |->
                IF g = "X" THEN Append(rest, ReceivedCapture(cursor)) ELSE hist.groups["Y"]]
       ELSE [g \in {"X", "Y"} |->
                IF g = "X" THEN rest ELSE Append(hist.groups["Y"], ReceivedCapture(cursor))]

\* C36: when (?<Y-X>pat) succeeds, by match or by a backtrack, the top
\* capture of X is popped and Y has received one capture, the middle two of
\* the boundaries of that capture and of the span pat matched; when the
\* group fails on a backtrack or is discarded, the stacks and the cursor are
\* those of the first call: the capture of Y is gone and the same capture
\* of X is back in its place.
C36_BalancingGroupSwapsCaptures ==
    (regex.ast.kind = "BalancingGroup" /\ pc \in {"live", "over"}) =>
        /\ (last.event \in {"match", "backtrack"} /\ last.ok) =>
              /\ Len(EarlierX) > api.pops
              /\ last.after.groups = BalancedGroups(last.after.currentIndex)
        /\ (last.event \in {"match", "backtrack", "discard"} /\ ~last.ok) =>
              last.after = hist

\* (?<Y-X>a|ab) has matched, was backtracked to its other branch, gave Y a
\* capture that is not empty, and is discarded
C36_Witness ==
    /\ regex.ast.kind = "BalancingGroup"
    /\ last.event = "discard"
    /\ last.chain = 1
    /\ Len(EarlierX) = 2
    /\ Len(last.before.groups["Y"]) = Len(hist.groups["Y"]) + 1
    /\ last.before.groups["Y"][Len(last.before.groups["Y"])].value # <<>>
    /\ last.before.groups["X"] = SubSeq(EarlierX, 1, 1)


-----------------------------------------------------------------------------
(* invert() on trees as the parser leaves them: the constructor of a       *)
(* right-to-left Regex inverts the whole tree once, and parseAtom inverts  *)
(* the inner regex of a lookbehind before it builds the Anchor.            *)

AB == Sequence(<<Lit("a"), Lit("b")>>)

\* a, b, (?=ab), (?<=ab), (ab), (?:ab|b), (?(ba)ab|b), (?(?=ba)ab|b),
\* a resolved Proxy for ab, (?:a(?!ab))*
InvertAtoms ==
    { Lit("a"), Lit("b"),
      Lookahead(AB, FALSE),
      Lookbehind(AB, FALSE),
      Group(AB, "1"),
      Alternation(AB, Seq1(Lit("b"))),
      Conditional(AB, Seq1(Lit("b")), "",
                  Lookahead(Sequence(<<Lit("b"), Lit("a")>>), FALSE), TRUE),
      Conditional(AB, Seq1(Lit("b")), "",
                  Lookahead(Sequence(<<Lit("b"), Lit("a")>>), FALSE), FALSE),
      SetExpression(Proxy, AB),
      Star(Sequence(<<Lit("a"), Lookahead(AB, TRUE)>>)) }

InvertTrees == {Seq1(x) : x \in InvertAtoms} \cup {Sequence(<<x, y>>) : x, y \in InvertAtoms}

InvertInit ==
    /\ \E t \in InvertTrees : regex = [ast |-> t, groups |-> {"1"}]
    /\ input = <<>>
    /\ op = "invert"
    /\ pc = "parsed"
    /\ st = Idle
    /\ found = <<>>
    /\ hist = Idle
    /\ toks = <<>>
    /\ last = Idle
    /\ scanner = Idle
    /\ ptext = <<>>
    /\ parser = Idle
    /\ api = Idle

\* parseAtom on "(?<=": expression.invert(), then anchor.lookbehind
ParseLookbehind ==
    /\ pc = "parsed"
    /\ hist' = regex.ast
    /\ regex' = [regex EXCEPT !.ast = Seq1(Anchor(InvertExpr(regex.ast), NoExpr, "lookbehind", FALSE))]
    /\ pc' = "lookbehind"
    /\ UNCHANGED <<input, op, st, found, toks, last, scanner, ptext, parser, api>>

\* the constructor of Regex with rightToLeft: this.ast.invert()
ConstructRightToLeft ==
    /\ pc \in {"parsed", "lookbehind"}
    /\ hist' = regex.ast
    /\ regex' = [regex EXCEPT !.ast = InvertExpr(regex.ast)]
    /\ pc' = "inverted"
    /\ UNCHANGED <<input, op, st, found, toks, last, scanner, ptext, parser, api>>

InvertNext == ParseLookbehind \/ ConstructRightToLeft

InvertSpec == InvertInit /\ [][InvertNext]_vars

RECURSIVE MirrorsEveryAnchor(_, _)

\* a is b with the children of every Sequence in reverse order and the sides
\* of every Anchor exchanged, each side mirrored in turn
MirrorsEveryAnchor(b, a) ==
    CASE b.kind = "none" -> a = b
      [] b.kind = "Sequence" ->
            /\ a.kind = "Sequence" /\ Len(a.atoms) = Len(b.atoms)
            /\ \A i \in 1..Len(b.atoms) :
                  MirrorsEveryAnchor(b.atoms[i], a.atoms[Len(b.atoms) + 1 - i])
      [] b.kind = "Alternation" ->
            /\ a.kind = b.kind
            /\ MirrorsEveryAnchor(b.left, a.left) /\ MirrorsEveryAnchor(b.right, a.right)
      [] b.kind \in {"Repetition", "Group", "BalancingGroup"} ->
            /\ a.kind = b.kind
            /\ a = [b EXCEPT !.atom = a.atom]
            /\ MirrorsEveryAnchor(b.atom, a.atom)
      [] b.kind = "Atomic" ->
            a.kind = b.kind /\ MirrorsEveryAnchor(b.expression, a.expression)
      [] b.kind = "Anchor" ->
            /\ a.kind = b.kind
            /\ a = [b EXCEPT !.left = a.left, !.right = a.right]
            /\ MirrorsEveryAnchor(b.left, a.right) /\ MirrorsEveryAnchor(b.right, a.left)
      [] b.kind = "Conditional" ->
            /\ a.kind = b.kind
            /\ MirrorsEveryAnchor(b.left, a.left) /\ MirrorsEveryAnchor(b.right, a.right)
            /\ MirrorsEveryAnchor(b.condAnchor, a.condAnchor)
      [] b.kind = "Proxy" ->
            a.kind = b.kind /\ MirrorsEveryAnchor(b.expression, a.expression)
      [] OTHER -> a = b

RECURSIVE MirrorsSequences(_, _)

\* a is b with the children of every Sequence outside Anchors and Proxies in
\* reverse order; an Anchor is left as it is, but the condition of an
\* implicit-lookahead Conditional has its sides exchanged and mirrored; a
\* Proxy has only its flag toggled
MirrorsSequences(b, a) ==
    CASE b.kind = "none" -> a = b
      [] b.kind = "Sequence" ->
            /\ a.kind = "Sequence" /\ Len(a.atoms) = Len(b.atoms)
            /\ \A i \in 1..Len(b.atoms) :
                  MirrorsSequences(b.atoms[i], a.atoms[Len(b.atoms) + 1 - i])
      [] b.kind = "Alternation" ->
            /\ a.kind = b.kind
            /\ MirrorsSequences(b.left, a.left) /\ MirrorsSequences(b.right, a.right)
      [] b.kind \in {"Repetition", "Group", "BalancingGroup"} ->
            /\ a.kind = b.kind
            /\ a = [b EXCEPT !.atom = a.atom]
            /\ MirrorsSequences(b.atom, a.atom)
      [] b.kind = "Atomic" ->
            a.kind = b.kind /\ MirrorsSequences(b.expression, a.expression)
      [] b.kind = "Anchor" -> a = b
      [] b.kind = "Conditional" ->
            /\ a.kind = b.kind
            /\ a = [b EXCEPT !.left = a.left, !.right = a.right, !.condAnchor = a.condAnchor]
            /\ MirrorsSequences(b.left, a.left) /\ MirrorsSequences(b.right, a.right)
            /\ IF b.isImplicitLookahead
               THEN /\ a.condAnchor = [b.condAnchor EXCEPT !.left = a.condAnchor.left,
                                                           !.right = a.condAnchor.right]
                    /\ MirrorsSequences(b.condAnchor.left, a.condAnchor.right)
                    /\ MirrorsSequences(b.condAnchor.right, a.condAnchor.left)
               ELSE a.condAnchor = b.condAnchor
      [] b.kind = "Proxy" -> a = [b EXCEPT !.inverted = ~b.inverted]
      [] OTHER -> a = b

\* the tree invert() returned with, for the tree in hist
InvertedTree == IF pc = "lookbehind" THEN regex.ast.atoms[1].left ELSE regex.ast

-----------------------------------------------------------------------------
(* \G and previousMatchEndIndex in the walks of Spec. *)

\* the cursor a found match ended at, in search direction
EndCursor(m) == IF regex.rightToLeft THEN m.index ELSE m.index + m.length

\* the a's of the input from index i on
RECURSIVE RunOfA(_)
RunOfA(i) == IF i < Len(input) /\ input[i + 1] = "a" THEN 1 + RunOfA(i + 1) ELSE 0

\* \G evaluated in the State as it is: it succeeds exactly at previousMatchEnd
MatchEndTestsCursor ==
    pc \in {"search", "done"} =>
        Match(MatchEnd, Rearm(st)).ok = (st.currentIndex = st.previousMatchEndIndex)

\* previousMatchEnd is the search start until the first match, and the end
\* cursor of the latest match afterwards
PreviousMatchEndFollowsMatches ==
    st.previousMatchEndIndex =
        IF found = <<>> THEN hist.origin ELSE EndCursor(found[Len(found)])

\* a step that changes previousMatchEnd is one that found a match
OnlyFinishMatchMoves ==
    st'.previousMatchEndIndex # st.previousMatchEndIndex =>
        /\ Len(found') = Len(found) + 1
        /\ st'.previousMatchEndIndex = hist'.cursor

\* matches() on \Ga finds the a's that follow the start without a gap
MatchEndWalk ==
    (regex.text = "\\Ga" /\ ~regex.rightToLeft /\ op = "matches" /\ pc = "done") =>
        /\ Len(found) = RunOfA(hist.origin)
        /\ \A i \in 1..Len(found) :
              found[i].index = hist.origin + i - 1 /\ found[i].length = 1

\* C38: \G succeeds exactly when the cursor equals previousMatchEnd;
\* previousMatchEnd is the search start index until the first match and the
\* end cursor of the latest match afterwards; only finishMatch changes it,
\* a failed attempt and the extra step after a zero-width match do not.
C38_PreviousMatchEndSetByFinishMatch ==
    /\ []MatchEndTestsCursor
    /\ []PreviousMatchEndFollowsMatches
    /\ []MatchEndWalk
    /\ [][OnlyFinishMatchMoves]_vars

\* after a zero-width match and the extra step, and then a failed attempt,
\* the cursor has left previousMatchEnd behind
C38_Witness ==
    /\ pc = "search"
    /\ found # <<>> /\ found[Len(found)].length = 0
    /\ hist.event = "failed"
    /\ st.currentIndex = st.previousMatchEndIndex + 2 * st.direction
    /\ ~Match(MatchEnd, Rearm(st)).ok


-----------------------------------------------------------------------------
(* match(input, start) followed by nextMatch() on every Match it returns,  *)
(* and matches(input, start), on the same Regex.                           *)

\* the patterns of the engine walks, and \Ga*
WalkPatterns ==
    Patterns \o << Pattern("\\Ga*", Sequence(<<MatchEnd, Star(Lit("a"))>>), <<>>) >>

WalkInit ==
    /\ \E id \in 1..Len(WalkPatterns), rightToLeft \in BOOLEAN :
          regex = NewRegex(WalkPatterns[id], rightToLeft)
    /\ input \in Strings(MaxLen)
    /\ op \in {"match", "matches"}
    /\ \E start \in 0..Len(input) : api = [start |-> start]
    /\ pc = "called"
    /\ st = Idle
    /\ found = <<>>
    /\ hist = Idle
    /\ toks = <<>>
    /\ last = Idle
    /\ scanner = Idle
    /\ ptext = <<>>
    /\ parser = Idle

\* match(input, start) or matches(input, start) is entered: createState
WalkEnters ==
    /\ pc = "called"
    /\ st' = CreateState(regex, input, TRUE, api.start)
    /\ pc' = "search"
    /\ hist' = [event |-> "start", startIndex |-> st'.currentIndex,
                cursor |-> st'.currentIndex, origin |-> st'.currentIndex]
    /\ UNCHANGED <<regex, input, op, found, toks, last, scanner, ptext, parser, api>>

WalkNext ==
    \/ WalkEnters
    \/ NextMatchEnters
    \/ GetMatchFound
    \/ GetMatchFailed
    \/ GetMatchOutOfBounds
    \/ GetMatchHangs
    \/ GetMatchThrows

WalkSpec == WalkInit /\ [][WalkNext]_vars

\* the call has returned a failure: matches() its list, the chain of
\* nextMatch() the unsuccessful Match
WalkEnded == pc = "done" /\ hist.event = "end"

\* the other way to walk the same input from the same start
OtherWalk ==
    Alone(regex, IF op = "match" THEN "matches" ELSE "match",
          FreshState(regex, input, TRUE, api.start), <<>>)

\* C39: match(input, start) followed by nextMatch() until it fails gives the
\* same Matches (index, value, captures of every group) as
\* matches(input, start).
C39_NextMatchWalksLikeMatches ==
    WalkEnded => (OtherWalk.pc = "done" => found = OtherWalk.found)

\* the same with \G left out
NextMatchWalksLikeMatchesWithoutG ==
    (WalkEnded /\ regex.text \notin {"\\Ga", "\\Ga*"}) =>
        (OtherWalk.pc = "done" => found = OtherWalk.found)


-----------------------------------------------------------------------------
(* Character nodes of classes [...] and [^...], with and without flag i,   *)
(* matched against one character.                                          *)

ClassChars == {"a", "A", "b", "B", "0"}

\* the class parseClass builds of literal elements: predicate.class of the
\* literals, wrapped in predicate.negate after "^"
ClassPredicate(set, negate) == [set |-> set, negate |-> negate]

ClassInit ==
    /\ \E set \in SUBSET ClassChars, negate \in BOOLEAN, ignoreCase \in BOOLEAN :
          regex = [ast |-> Character(ClassPredicate(set, negate), ignoreCase), groups |-> {}]
    /\ \E c \in ClassChars : input = <<c>>
    /\ st = NewState(input, {}, 0, 1)
    /\ op = "class"
    /\ pc = "fresh"
    /\ found = <<>>
    /\ hist = Idle
    /\ toks = <<>>
    /\ last = Idle
    /\ scanner = Idle
    /\ ptext = <<>>
    /\ parser = Idle
    /\ api = Idle

\* token = character.match(state)
ClassCallMatch ==
    /\ pc = "fresh"
    /\ \E r \in {Match(regex.ast, Rearm(st))} :
          /\ st' = Rearm(r.st)
          /\ last' = Outcome("match", r.ok, 0, View(st), r.st)
          /\ IF r.ok
             THEN pc' = "live" /\ toks' = <<r.tok>>
             ELSE pc' = "over" /\ toks' = <<>>
    /\ UNCHANGED <<regex, input, op, found, hist, scanner, ptext, parser, api>>

\* character.discard(state, token)
ClassCallDiscard ==
    /\ pc = "live"
    /\ \E s1 \in {Discard(regex.ast, Rearm(st), toks[1])} :
          /\ st' = Rearm(s1)
          /\ last' = Outcome("discard", FALSE, 0, View(st), s1)
    /\ pc' = "over"
    /\ toks' = <<>>
    /\ UNCHANGED <<regex, input, op, found, hist, scanner, ptext, parser, api>>

ClassNext == ClassCallMatch \/ ClassCallDiscard

ClassSpec == ClassInit /\ [][ClassNext]_vars

\* the node of the class with the same elements and the other sign
OppositeClass ==
    Character(ClassPredicate(regex.ast.filter.set, ~regex.ast.filter.negate),
              regex.ast.ignoreCase)

\* whether the node of the opposite class accepts the character
OppositeAccepts == Match(OppositeClass, NewState(input, {}, 0, 1)).ok

\* C40: a class accepts a character exactly when the class of the same
\* elements with the other sign rejects it, with and without flag i.
C40_NegationConsistentUnderIgnoreCase ==
    last.event = "match" => (last.ok = ~OppositeAccepts)

\* the same for case-sensitive nodes only
NegationConsistentCaseSensitive ==
    (last.event = "match" /\ ~regex.ast.ignoreCase) => (last.ok = ~OppositeAccepts)

\* [^a] under i has accepted "a"
NegatedClassAcceptsItsLetter ==
    /\ last.event = "match" /\ last.ok
    /\ regex.ast = Character(ClassPredicate({"a"}, TRUE), TRUE)
    /\ input = <<"a">>

====
